---------------------------- MODULE Spec2Model ----------------------------
(***************************************************************************)
(* The byte-level memory of the interpreter (src/src/memory.rs): the       *)
(* allocation map, the budget counter, the function allocations, the       *)
(* relocation maps and the packed init bitmaps, with one action per public *)
(* operation of Memory.                                                     *)
(***************************************************************************)
EXTENDS Integers, Sequences, FiniteSets, TLC

\* ------------------------------------------------------------------ bounds

\* The budget handed to Memory::new (max_memory).
MemorySize == 2
\* Ids are issued while next_id < MaxId.
MaxId == 4
\* Largest size / new_size argument of allocate and reallocate.
MaxSize == 1
\* Largest byte offset of a pointer handed to an operation.
MaxOffset == 2
\* In the specification of one allocation's contents ids are issued while
\* next_id < MaxIdBytes.
MaxIdBytes == 2
\* In the specification of copies between allocations ids are issued while
\* next_id < MaxIdCopy.
MaxIdCopy == 3
\* At most MaxLive byte allocations (the ZST allocation aside) are alive at a time.
MaxLive == 2
\* Largest size of a read_bytes, write_repeat or copy range.
MaxAccess == 3
\* The larger of the two memory sizes eval_main is run with.
EvalMemorySize == 8
\* The largest stack_limit eval_main is run with.
MaxStackLimit == 3
\* The largest step_limit eval_main is run with.
MaxSteps == 14
\* The programs that assign aggregates get AggrMemorySize bytes of memory and
\* execute at most MaxAssignments assignments.
AggrMemorySize == 24
MaxAssignments == 4
\* The literals are lowered into a memory of LitMemorySize bytes while
\* next_id + 2 <= MaxIdLit.
LitMemorySize == 24
MaxIdLit == 7
\* The test harness is run over directories of at most MaxFiles entries.
MaxFiles == 2
\* usize is modelled UsizeBits wide: arithmetic on the budget counter wraps
\* at 2^UsizeBits in a build without overflow checks.
UsizeBits == 5

\* ------------------------------------------------------- program constants

ZST_ALLOC_ID == 0
BLOCK_SIZE == 64
\* layout.pointer_size.bytes() of the target (a 16-bit target).
PointerSize == 2
\* layout.i8_align .. i64_align (abi, in bytes).
I8Align == 1
I16Align == 2
I32Align == 4
I64Align == 8
\* layout.i1_align, f32_align, f64_align of the target (bytes)
I1Align == 1
F32Align == 4
F64Align == 8

\* ------------------------------------------------------------- input sets

Aligns == {0, 1, 2}
Sizes == 0 .. MaxSize
Offsets == 0 .. MaxOffset
Ids == 0 .. (MaxId - 1)
Defs == {"f", "g"}
IntSizes == {1, 2}
UintValues == {1}
ByteStrings == {<<>>, <<1>>, <<2, 2>>}
ValueOffsets == {0, 1}
AccessSizes == 0 .. MaxAccess
IntValues == {-1}
FloatSizes == {4, 8}
FloatBits == {1}
EvalMemorySizes == {MemorySize, EvalMemorySize}
StackLimits == 0 .. MaxStackLimit
StepLimits == 0 .. MaxSteps

RECURSIVE Pow2(_)
Pow2(n) == IF n = 0 THEN 1 ELSE 2 * Pow2(n - 1)

UsizeModulus == Pow2(UsizeBits)

Min(a, b) == IF a < b THEN a ELSE b
Max(a, b) == IF a > b THEN a ELSE b

Pointer(id, off) == [alloc_id |-> id, offset |-> off]

\* Pointer::offset
PtrOffset(ptr, i) == Pointer(ptr.alloc_id, ptr.offset + i)

\* A points_to_zst that recognises no pointer as the ZST pointer.
points_to_zst_never(ptr) == FALSE

\* Pointer::points_to_zst
points_to_zst(ptr) == ptr.alloc_id = ZST_ALLOC_ID

\* Pointer::zst_ptr
zst_ptr == Pointer(ZST_ALLOC_ID, 0)

\* An is_aligned_to that accepts every offset.
is_aligned_to_always(ptr, align) == TRUE

\* Pointer::is_aligned_to
is_aligned_to(ptr, align) == ptr.offset % align = 0

\* The loop of Pointer::check_align: the largest power of two dividing best.
RECURSIVE BestAlign(_, _)
BestAlign(best, i) ==
    IF best > 0 /\ best % 2 = 0 THEN BestAlign(best \div 2, 2 * i) ELSE i

\* Pointer::check_align
check_align(ptr, align) ==
    IF is_aligned_to(ptr, align)
    THEN [err |-> "Ok"]
    ELSE [err |-> "AlignmentCheckFailed", required |-> align,
          has |-> BestAlign(ptr.offset, 1)]

\* ---------------------------------------------------------------- UndefMask

\* bit_index
bit_index(bits) == [block |-> bits \div BLOCK_SIZE, bit |-> bits % BLOCK_SIZE]

\* UndefMask::get (blocks are 1-indexed sequences of sets of set bit numbers)
UndefMask_get(m, i) == bit_index(i).bit \in m.blocks[bit_index(i).block + 1]

\* UndefMask::set_range_inbounds (the loop of UndefMask::set over start..end)
set_range_inbounds(m, start, end, new_state) ==
    [m EXCEPT !.blocks =
        [k \in 1 .. Len(m.blocks) |->
            LET bits == {i % BLOCK_SIZE : i \in
                          {j \in start .. (end - 1) : j \div BLOCK_SIZE + 1 = k}}
            IN IF new_state THEN m.blocks[k] \cup bits ELSE m.blocks[k] \ bits]]

\* UndefMask::grow
UndefMask_grow(m, amount, new_state) ==
    LET unused_trailing_bits == Len(m.blocks) * BLOCK_SIZE - m.len
        additional_blocks == amount \div BLOCK_SIZE + 1
        blocks2 == IF amount > unused_trailing_bits
                   THEN m.blocks \o [k \in 1 .. additional_blocks |-> {}]
                   ELSE m.blocks
    IN set_range_inbounds([blocks |-> blocks2, len |-> m.len + amount],
                          m.len, m.len + amount, new_state)

\* An UndefMask::new whose bits start defined.
UndefMask_new_defined(size) == UndefMask_grow([blocks |-> <<>>, len |-> 0], size, TRUE)

\* UndefMask::new
UndefMask_new(size) == UndefMask_grow([blocks |-> <<>>, len |-> 0], size, FALSE)

\* UndefMask::is_range_defined
is_range_defined(m, start, end) ==
    IF end > m.len THEN FALSE
    ELSE \A i \in start .. (end - 1) : UndefMask_get(m, i)

\* UndefMask::set_range
set_range(m, start, end, new_state) ==
    LET g == IF end > m.len THEN UndefMask_grow(m, end - m.len, new_state) ELSE m
    IN set_range_inbounds(g, start, end, new_state)

\* UndefMask::truncate
UndefMask_truncate(m, length) ==
    [blocks |-> SubSeq(m.blocks, 1, Min(Len(m.blocks), length \div BLOCK_SIZE + 1)),
     len |-> length]

\* ---------------------------------------------------------------- state

VARIABLES
    alloc_map,              \* AllocId -> Allocation (bytes, relocations, undef_mask, align)
    memory_usage,           \* number of virtual bytes allocated
    memory_size,            \* maximum number of virtual bytes
    functions,              \* AllocId -> FunctionDefinition
    function_alloc_cache,   \* FunctionDefinition -> AllocId
    next_id,                \* the id the next allocation gets
    panicked,               \* the process aborted on a panic
    wrapped,                \* a usize operation has wrapped (build without overflow checks)
    last,                   \* the last call: operation, result, returned pointer
    issued,                 \* history: the ids handed out so far
    freed,                  \* history: the ids deallocate has removed
    statics,                \* EvalContext: ConstantId -> Pointer
    stack,                  \* EvalContext: the virtual call stack, top frame last
    stack_limit,            \* EvalContext: the maximum number of stack frames
    frozen,                 \* the ids of the allocations sealed by a Freeze cleanup
    main_def,               \* eval_main: the def_id of the main function
    step_limit,             \* eval_main: the number of iterations of the stepping loop
    steps,                  \* eval_main: the iterations of the stepping loop made so far
    phase,                  \* eval_main: "new", "running", "returned", "reported", "aborted"
    files,                  \* run_inner: the directory entries still to be looked at
    run_report,             \* run_inner: report, the Report being filled
    run_result,             \* run_inner: what it returned, once it has
    ran                     \* history: the files run so far, by whether the run panicked

\* The state of the interpreter and of eval_main, which Memory never touches.
evars == <<statics, stack, stack_limit, frozen, main_def, step_limit, steps, phase>>

\* The state of the test harness, which the interpreter never touches.
hvars == <<files, run_report, run_result, ran>>

vars == <<alloc_map, memory_usage, memory_size, functions, function_alloc_cache,
          next_id, panicked, wrapped, last, issued, freed, statics, stack,
          stack_limit, frozen, main_def, step_limit, steps, phase, files,
          run_report, run_result, ran>>

\* struct Allocation
Allocation(bytes, relocations, undef_mask, align) ==
    [bytes |-> bytes, relocations |-> relocations, undef_mask |-> undef_mask,
     align |-> align]

\* BTreeMap::new()
EmptyMap == [k \in {} |-> 0]

Zeros(n) == [i \in 1 .. n |-> 0]

\* A lookup that does not tell function ids from dead ids.
get_no_functions(am, id) ==
    IF id \in DOMAIN am THEN "Ok" ELSE "DanglingPointerDeref"

\* Memory::get / Memory::get_mut: the error, or "Ok"
get(am, id) ==
    IF id \in DOMAIN am THEN "Ok"
    ELSE IF id \in DOMAIN functions THEN "DerefFunctionPointer"
    ELSE "DanglingPointerDeref"

\* Memory::get_fn
get_fn(id) ==
    IF id \in DOMAIN functions THEN [err |-> "Ok", def |-> functions[id]]
    ELSE IF id \in DOMAIN alloc_map THEN [err |-> "ExecuteMemory", def |-> ""]
    ELSE [err |-> "InvalidFunctionPointer", def |-> ""]

\* ------------------------------------------------------------ relocations

\* A range query that starts at the pointer's offset: it misses the
\* relocations that begin before the range and reach into it.
relocations_from_offset(am, ptr, size) ==
    {k \in DOMAIN am[ptr.alloc_id].relocations :
        ptr.offset <= k /\ k < ptr.offset + size}

\* A range query that starts at offset 0: it also returns the relocations
\* that end before the range.
relocations_below_end(am, ptr, size) ==
    {k \in DOMAIN am[ptr.alloc_id].relocations : k < ptr.offset + size}

\* Memory::relocations: the keys of the range query (the allocation exists)
relocations(am, ptr, size) ==
    LET start == Max(0, ptr.offset - (PointerSize - 1))
        end == ptr.offset + size
    IN {k \in DOMAIN am[ptr.alloc_id].relocations : start <= k /\ k < end}

SetMin(S) == CHOOSE x \in S : \A y \in S : x <= y
SetMax(S) == CHOOSE x \in S : \A y \in S : x >= y

\* A clear_relocations that forgets the relocations and leaves the init bits
\* of the clipped ones as they were.
clear_relocations_keep_mask(am, ptr, size) ==
    IF get(am, ptr.alloc_id) # "Ok" THEN [err |-> get(am, ptr.alloc_id), am |-> am]
    ELSE
    LET keys == relocations(am, ptr, size)
        alloc == am[ptr.alloc_id]
        rel == [k \in (DOMAIN alloc.relocations) \ keys |-> alloc.relocations[k]]
    IN [err |-> "Ok", am |-> [am EXCEPT ![ptr.alloc_id].relocations = rel]]

\* Memory::clear_relocations
clear_relocations(am, ptr, size) ==
    IF get(am, ptr.alloc_id) # "Ok" THEN [err |-> get(am, ptr.alloc_id), am |-> am]
    ELSE
    LET keys == relocations(am, ptr, size) IN
    IF keys = {} THEN [err |-> "Ok", am |-> am]
    ELSE
    LET start == ptr.offset
        end == start + size
        first == SetMin(keys)
        lastEnd == SetMax(keys) + PointerSize
        alloc == am[ptr.alloc_id]
        m1 == IF first < start
              THEN set_range(alloc.undef_mask, first, start, FALSE)
              ELSE alloc.undef_mask
        m2 == IF lastEnd > end THEN set_range(m1, end, lastEnd, FALSE) ELSE m1
        rel == [k \in (DOMAIN alloc.relocations) \ keys |-> alloc.relocations[k]]
    IN [err |-> "Ok",
        am |-> [am EXCEPT ![ptr.alloc_id] =
                   [alloc EXCEPT !.undef_mask = m2, !.relocations = rel]]]

\* A check_relocation_edges that looks at the start of the range only.
check_relocation_edges_start_only(am, ptr, size) ==
    IF get(am, ptr.alloc_id) # "Ok" THEN get(am, ptr.alloc_id)
    ELSE IF Cardinality(relocations(am, ptr, 0)) # 0 THEN "ReadPointerAsBytes" ELSE "Ok"

\* Memory::check_relocation_edges
check_relocation_edges(am, ptr, size) ==
    IF get(am, ptr.alloc_id) # "Ok" THEN get(am, ptr.alloc_id)
    ELSE
    LET overlapping_start == Cardinality(relocations(am, ptr, 0))
        overlapping_end == Cardinality(relocations(am, PtrOffset(ptr, size), 0))
    IN IF overlapping_start + overlapping_end # 0 THEN "ReadPointerAsBytes" ELSE "Ok"

\* Memory::copy_relocations
copy_relocations(am, src, dest, size) ==
    IF get(am, src.alloc_id) # "Ok" THEN [err |-> get(am, src.alloc_id), am |-> am]
    ELSE
    LET keys == relocations(am, src, size)
        srcrel == am[src.alloc_id].relocations
        moved == {k + dest.offset - src.offset : k \in keys}
    IN IF get(am, dest.alloc_id) # "Ok"
       THEN [err |-> get(am, dest.alloc_id), am |-> am]
       ELSE
       LET old == am[dest.alloc_id].relocations
           new == [k \in (DOMAIN old) \cup moved |->
                      IF k \in moved
                      THEN srcrel[k - dest.offset + src.offset]
                      ELSE old[k]]
       IN [err |-> "Ok", am |-> [am EXCEPT ![dest.alloc_id].relocations = new]]

\* ---------------------------------------------------------- undefined bytes

\* Memory::check_defined
check_defined(am, ptr, size) ==
    IF get(am, ptr.alloc_id) # "Ok" THEN get(am, ptr.alloc_id)
    ELSE IF ~is_range_defined(am[ptr.alloc_id].undef_mask, ptr.offset, ptr.offset + size)
    THEN "ReadUndefBytes"
    ELSE "Ok"

\* Memory::mark_definedness
mark_definedness(am, ptr, size, new_state) ==
    IF get(am, ptr.alloc_id) # "Ok" THEN [err |-> get(am, ptr.alloc_id), am |-> am]
    ELSE [err |-> "Ok",
          am |-> [am EXCEPT ![ptr.alloc_id].undef_mask =
                     set_range(@, ptr.offset, ptr.offset + size, new_state)]]

\* A copy_undef_mask that leaves the destination's init bits as the write
\* access to the destination set them.
copy_undef_mask_keep(am, src, dest, size) == [err |-> "Ok", am |-> am]

\* Memory::copy_undef_mask (the bits are read from src, then written to dest)
copy_undef_mask(am, src, dest, size) ==
    IF size = 0 THEN [err |-> "Ok", am |-> am]
    ELSE IF get(am, src.alloc_id) # "Ok" THEN [err |-> get(am, src.alloc_id), am |-> am]
    ELSE IF get(am, dest.alloc_id) # "Ok" THEN [err |-> get(am, dest.alloc_id), am |-> am]
    ELSE
    LET v == [i \in 0 .. (size - 1) |->
                 UndefMask_get(am[src.alloc_id].undef_mask, src.offset + i)]
        m == am[dest.alloc_id].undef_mask
        on == {dest.offset + i : i \in {j \in 0 .. (size - 1) : v[j]}}
        off == {dest.offset + i : i \in {j \in 0 .. (size - 1) : ~v[j]}}
        m2 == [m EXCEPT !.blocks =
                  [k \in 1 .. Len(m.blocks) |->
                      (m.blocks[k]
                         \cup {i % BLOCK_SIZE : i \in {j \in on : j \div BLOCK_SIZE + 1 = k}})
                         \ {i % BLOCK_SIZE : i \in {j \in off : j \div BLOCK_SIZE + 1 = k}}]]
    IN [err |-> "Ok", am |-> [am EXCEPT ![dest.alloc_id].undef_mask = m2]]

\* ------------------------------------------------------------ byte accessors

\* Memory::get_bytes_unchecked / get_bytes_unchecked_mut: the bounds check
get_bytes_unchecked(am, ptr, size) ==
    IF get(am, ptr.alloc_id) # "Ok" THEN get(am, ptr.alloc_id)
    ELSE IF ptr.offset + size > Len(am[ptr.alloc_id].bytes) THEN "PointerOutOfBounds"
    ELSE "Ok"

\* &alloc.bytes[ptr.offset..ptr.offset + size]
Slice(am, ptr, size) ==
    [i \in 1 .. size |-> am[ptr.alloc_id].bytes[ptr.offset + i]]

\* Memory::get_bytes
get_bytes(am, ptr, size) ==
    IF get(am, ptr.alloc_id) # "Ok" THEN get(am, ptr.alloc_id)
    ELSE IF Cardinality(relocations(am, ptr, size)) # 0 THEN "ReadPointerAsBytes"
    ELSE IF check_defined(am, ptr, size) # "Ok" THEN check_defined(am, ptr, size)
    ELSE get_bytes_unchecked(am, ptr, size)

\* Memory::get_bytes_mut: clear_relocations, mark_definedness, then the bounds check
get_bytes_mut(am, ptr, size) ==
    LET r1 == clear_relocations(am, ptr, size) IN
    IF r1.err # "Ok" THEN r1
    ELSE
    LET r2 == mark_definedness(r1.am, ptr, size, TRUE) IN
    IF r2.err # "Ok" THEN r2
    ELSE [err |-> get_bytes_unchecked(r2.am, ptr, size), am |-> r2.am]

\* the slice returned by get_bytes_mut, overwritten with data
StoreBytes(am, ptr, data) ==
    [am EXCEPT ![ptr.alloc_id].bytes =
        [i \in 1 .. Len(@) |->
            IF i > ptr.offset /\ i <= ptr.offset + Len(data)
            THEN data[i - ptr.offset]
            ELSE @[i]]]

\* ------------------------------------------------------- target endianess

\* layout.endian of the target
Endian == "Little"

RECURSIVE Pow256(_)
Pow256(n) == IF n = 0 THEN 1 ELSE 256 * Pow256(n - 1)

\* A write_target_uint that stores the bytes in the other byte order.
write_target_uint_swapped(endianess, len, data) ==
    IF endianess = "Little"
    THEN [i \in 1 .. len |-> (data \div Pow256(len - i)) % 256]
    ELSE [i \in 1 .. len |-> (data \div Pow256(i - 1)) % 256]

\* write_target_uint: data encoded in len bytes
write_target_uint(endianess, len, data) ==
    IF endianess = "Little"
    THEN [i \in 1 .. len |-> (data \div Pow256(i - 1)) % 256]
    ELSE [i \in 1 .. len |-> (data \div Pow256(len - i)) % 256]

RECURSIVE SumLE(_, _)
SumLE(bytes, i) ==
    IF i > Len(bytes) THEN 0 ELSE bytes[i] * Pow256(i - 1) + SumLE(bytes, i + 1)

RECURSIVE SumBE(_, _)
SumBE(bytes, i) ==
    IF i > Len(bytes) THEN 0
    ELSE bytes[i] * Pow256(Len(bytes) - i) + SumBE(bytes, i + 1)

\* read_target_uint
read_target_uint(endianess, source) ==
    IF endianess = "Little" THEN SumLE(source, 1) ELSE SumBE(source, 1)

\* write_target_int: the two's complement of data in len bytes
write_target_int(endianess, len, data) ==
    write_target_uint(endianess, len, data % Pow256(len))

\* read_target_int: the bytes read as a two's complement number
read_target_int(endianess, source) ==
    LET u == read_target_uint(endianess, source) IN
    IF Len(source) > 0 /\ 2 * u >= Pow256(Len(source)) THEN u - Pow256(Len(source)) ELSE u

\* ------------------------------------------------------ reading and writing

NoPtr == Pointer(0, 0)

\* Memory::check_int_align
check_int_align(ptr, size) ==
    IF size = 1 THEN check_align(ptr, I8Align)
    ELSE IF size = 2 THEN check_align(ptr, I16Align)
    ELSE IF size = 4 THEN check_align(ptr, I32Align)
    ELSE check_align(ptr, I64Align)

\* Memory::read_bytes
read_bytes(am, ptr, size) ==
    LET e == get_bytes(am, ptr, size) IN
    [err |-> e, val |-> IF e = "Ok" THEN Slice(am, ptr, size) ELSE <<>>]

\* Memory::write_bytes
write_bytes(am, ptr, src) ==
    LET r == get_bytes_mut(am, ptr, Len(src)) IN
    IF r.err # "Ok" THEN r
    ELSE [err |-> "Ok", am |-> StoreBytes(r.am, ptr, src)]

\* Memory::write_repeat
write_repeat(am, ptr, val, count) ==
    LET r == get_bytes_mut(am, ptr, count) IN
    IF r.err # "Ok" THEN r
    ELSE [err |-> "Ok", am |-> StoreBytes(r.am, ptr, [i \in 1 .. count |-> val])]

\* Memory::read_uint
read_uint(am, ptr, size) ==
    LET a == check_int_align(ptr, size) IN
    IF a.err # "Ok" THEN [err |-> a.err, val |-> 0]
    ELSE
    LET e == get_bytes(am, ptr, size) IN
    [err |-> e,
     val |-> IF e = "Ok" THEN read_target_uint(Endian, Slice(am, ptr, size)) ELSE 0]

\* Memory::write_uint
write_uint(am, ptr, n, size) ==
    LET a == check_int_align(ptr, size) IN
    IF a.err # "Ok" THEN [err |-> a.err, am |-> am]
    ELSE
    LET r == get_bytes_mut(am, ptr, size) IN
    IF r.err # "Ok" THEN r
    ELSE [err |-> "Ok", am |-> StoreBytes(r.am, ptr, write_target_uint(Endian, size, n))]

\* Memory::read_int
read_int(am, ptr, size) ==
    LET a == check_int_align(ptr, size) IN
    IF a.err # "Ok" THEN [err |-> a.err, val |-> 0]
    ELSE
    LET e == get_bytes(am, ptr, size) IN
    [err |-> e,
     val |-> IF e = "Ok" THEN read_target_int(Endian, Slice(am, ptr, size)) ELSE 0]

\* Memory::write_int
write_int(am, ptr, n, size) ==
    LET a == check_int_align(ptr, size) IN
    IF a.err # "Ok" THEN [err |-> a.err, am |-> am]
    ELSE
    LET r == get_bytes_mut(am, ptr, size) IN
    IF r.err # "Ok" THEN r
    ELSE [err |-> "Ok", am |-> StoreBytes(r.am, ptr, write_target_int(Endian, size, n))]

\* Memory::read_bool
read_bool(am, ptr) ==
    LET a == check_align(ptr, I1Align) IN
    IF a.err # "Ok" THEN [err |-> a.err, val |-> FALSE]
    ELSE
    LET e == get_bytes(am, ptr, 1) IN
    IF e # "Ok" THEN [err |-> e, val |-> FALSE]
    ELSE IF Slice(am, ptr, 1)[1] = 0 THEN [err |-> "Ok", val |-> FALSE]
    ELSE IF Slice(am, ptr, 1)[1] = 1 THEN [err |-> "Ok", val |-> TRUE]
    ELSE [err |-> "InvalidBool", val |-> FALSE]

\* Memory::write_bool
write_bool(am, ptr, b) ==
    LET a == check_align(ptr, I1Align) IN
    IF a.err # "Ok" THEN [err |-> a.err, am |-> am]
    ELSE
    LET r == get_bytes_mut(am, ptr, 1) IN
    IF r.err # "Ok" THEN r
    ELSE [err |-> "Ok", am |-> StoreBytes(r.am, ptr, <<IF b THEN 1 ELSE 0>>)]

\* Memory::write_f32 / write_f64: a float is its IEEE bit pattern, size bytes wide
write_float(am, ptr, bits, size) ==
    LET a == check_align(ptr, IF size = 4 THEN F32Align ELSE F64Align) IN
    IF a.err # "Ok" THEN [err |-> a.err, am |-> am]
    ELSE
    LET r == get_bytes_mut(am, ptr, size) IN
    IF r.err # "Ok" THEN r
    ELSE [err |-> "Ok", am |-> StoreBytes(r.am, ptr, write_target_uint(Endian, size, bits))]

\* Memory::read_f32 / read_f64
read_float(am, ptr, size) ==
    LET a == check_align(ptr, IF size = 4 THEN F32Align ELSE F64Align) IN
    IF a.err # "Ok" THEN [err |-> a.err, val |-> 0]
    ELSE
    LET e == get_bytes(am, ptr, size) IN
    [err |-> e,
     val |-> IF e = "Ok" THEN read_target_uint(Endian, Slice(am, ptr, size)) ELSE 0]

\* Memory::write_usize
write_usize(am, ptr, n) == write_uint(am, ptr, n, PointerSize)

\* Memory::read_ptr
read_ptr(am, ptr) ==
    LET size == PointerSize
        d == check_defined(am, ptr, size)
    IN
    IF d # "Ok" THEN [err |-> d, ret |-> NoPtr]
    ELSE IF get_bytes_unchecked(am, ptr, size) # "Ok"
    THEN [err |-> get_bytes_unchecked(am, ptr, size), ret |-> NoPtr]
    ELSE
    LET offset == read_target_uint(Endian, Slice(am, ptr, size))
        alloc == am[ptr.alloc_id]
    IN IF ptr.offset \in DOMAIN alloc.relocations
       THEN [err |-> "Ok", ret |-> Pointer(alloc.relocations[ptr.offset], offset)]
       ELSE [err |-> "ReadBytesAsPointer", ret |-> NoPtr]

\* Memory::write_ptr
write_ptr(am, dest, ptr) ==
    LET r == write_usize(am, dest, ptr.offset) IN
    IF r.err # "Ok" THEN r
    ELSE IF get(r.am, dest.alloc_id) # "Ok"
    THEN [err |-> get(r.am, dest.alloc_id), am |-> r.am]
    ELSE
    LET old == r.am[dest.alloc_id].relocations
        new == [k \in (DOMAIN old) \cup {dest.offset} |->
                   IF k = dest.offset THEN ptr.alloc_id ELSE old[k]]
    IN [err |-> "Ok", am |-> [r.am EXCEPT ![dest.alloc_id].relocations = new]]

\* Memory::copy
copy(am, src, dest, size) ==
    LET e1 == check_relocation_edges(am, src, size) IN
    IF e1 # "Ok" THEN [err |-> e1, am |-> am]
    ELSE
    LET e2 == get_bytes_unchecked(am, src, size) IN
    IF e2 # "Ok" THEN [err |-> e2, am |-> am]
    ELSE
    LET r3 == get_bytes_mut(am, dest, size) IN
    IF r3.err # "Ok" THEN r3
    ELSE
    LET copied == StoreBytes(r3.am, dest, Slice(r3.am, src, size))
        r4 == copy_undef_mask(copied, src, dest, size)
    IN
    IF r4.err # "Ok" THEN r4
    ELSE copy_relocations(r4.am, src, dest, size)

\* ------------------------------------------------- allocation operations

\* struct Memory: the fields as one value
Mem ==
    [alloc_map |-> alloc_map, memory_usage |-> memory_usage,
     memory_size |-> memory_size, functions |-> functions,
     function_alloc_cache |-> function_alloc_cache, next_id |-> next_id]

\* usize subtraction and addition: the wrapped value, and whether it overflowed.
\* The operations below compute what a build without overflow checks computes
\* and report in wrap whether an overflow happened on the way; a build with
\* overflow checks panics at the first one (Outcomes).
USub(a, b) == [ovf |-> b > a, val |-> (a - b) % UsizeModulus]
UAdd(a, b) == [ovf |-> a + b >= UsizeModulus, val |-> (a + b) % UsizeModulus]

\* A call that returns err (or Ok) and leaves the memory M as it found it.
Return(M, err, ret) ==
    [err |-> err, ret |-> ret, mem |-> M, panic |-> FALSE, wrap |-> FALSE]

\* An arithmetic overflow in a build with overflow checks: the process panics.
Panic(M) == [err |-> "panic", ret |-> NoPtr, mem |-> M, panic |-> TRUE, wrap |-> FALSE]

\* What a call with wrapping result r can do: r itself, unless it overflowed; if
\* it overflowed, r in a build without overflow checks and a panic in a build
\* with them (which is excluded once an earlier operation has wrapped).
Outcomes(M, r) ==
    IF ~r.wrap THEN {r}
    ELSE IF wrapped THEN {r}
    ELSE {r, Panic(M)}

\* An id choice that takes the lowest id in use by no allocation or function.
fresh_id_reuse(M) ==
    CHOOSE i \in 1 .. M.next_id :
        /\ i \notin (DOMAIN M.alloc_map) \cup (DOMAIN M.functions)
        /\ \A j \in 1 .. (i - 1) : j \in (DOMAIN M.alloc_map) \cup (DOMAIN M.functions)

\* let id = self.next_id (allocate, create_fn_ptr)
fresh_id(M) == M.next_id

\* A base-pointer test that accepts every offset.
bad_pointer_offset_never(M, ptr) == FALSE

\* ptr.offset != self.get(ptr.alloc_id)?.align (reallocate, deallocate)
bad_pointer_offset(M, ptr) == ptr.offset # M.alloc_map[ptr.alloc_id].align

\* Memory::allocate
allocate(M, size, align) ==
    IF size = 0 THEN Return(M, "Ok", zst_ptr)
    ELSE
    LET least_aligned_size == size + align
        room == USub(M.memory_size, M.memory_usage)
        usage == UAdd(M.memory_usage, size)
        alloc == Allocation(Zeros(least_aligned_size), EmptyMap,
                            UndefMask_new(least_aligned_size), align)
        id == fresh_id(M)
    IN
    IF room.val < size
    THEN [Return(M, "OutOfMemory", NoPtr) EXCEPT !.wrap = room.ovf]
    ELSE [err |-> "Ok", ret |-> Pointer(id, align),
          mem |-> [M EXCEPT !.memory_usage = usage.val,
                            !.next_id = M.next_id + 1,
                            !.alloc_map = [k \in (DOMAIN @) \cup {id} |->
                                              IF k = id THEN alloc ELSE @[k]]],
          panic |-> FALSE, wrap |-> room.ovf \/ usage.ovf]

\* Memory::reallocate
reallocate(M, ptr, new_size, align) ==
    IF get(M.alloc_map, ptr.alloc_id) # "Ok"
    THEN Return(M, get(M.alloc_map, ptr.alloc_id), NoPtr)
    ELSE IF bad_pointer_offset(M, ptr)
    THEN Return(M, "Unimplemented", NoPtr)
    ELSE IF points_to_zst(ptr) THEN allocate(M, new_size, align)
    ELSE
    LET old == M.alloc_map[ptr.alloc_id]
        size == Len(old.bytes)
        least_aligned_size == new_size + align
    IN
    IF least_aligned_size > size THEN
        LET amount == least_aligned_size - size
            usage == UAdd(M.memory_usage, amount)
            alloc == [old EXCEPT !.bytes = @ \o Zeros(amount),
                                 !.undef_mask = UndefMask_grow(@, amount, FALSE)]
        IN [err |-> "Ok", ret |-> Pointer(ptr.alloc_id, align),
            mem |-> [M EXCEPT !.memory_usage = usage.val,
                              !.alloc_map[ptr.alloc_id] = alloc],
            panic |-> FALSE, wrap |-> usage.ovf]
    ELSE IF size > least_aligned_size THEN
        LET usage == USub(M.memory_usage, size - least_aligned_size)
            r == clear_relocations(M.alloc_map, PtrOffset(ptr, least_aligned_size),
                                   size - least_aligned_size)
            alloc == [r.am[ptr.alloc_id] EXCEPT
                         !.bytes = SubSeq(@, 1, least_aligned_size),
                         !.undef_mask = UndefMask_truncate(@, least_aligned_size)]
        IN [err |-> "Ok", ret |-> Pointer(ptr.alloc_id, align),
            mem |-> [M EXCEPT !.memory_usage = usage.val,
                              !.alloc_map = [r.am EXCEPT ![ptr.alloc_id] = alloc]],
            panic |-> FALSE, wrap |-> usage.ovf]
    ELSE Return(M, "Ok", Pointer(ptr.alloc_id, align))

\* Memory::deallocate
deallocate(M, ptr) ==
    IF points_to_zst(ptr) THEN Return(M, "Ok", NoPtr)
    ELSE IF get(M.alloc_map, ptr.alloc_id) # "Ok"
    THEN Return(M, get(M.alloc_map, ptr.alloc_id), NoPtr)
    ELSE IF bad_pointer_offset(M, ptr)
    THEN Return(M, "Unimplemented", NoPtr)
    ELSE
    LET alloc == M.alloc_map[ptr.alloc_id]
        usage == USub(M.memory_usage, Len(alloc.bytes))
    IN [err |-> "Ok", ret |-> NoPtr,
        mem |-> [M EXCEPT !.memory_usage = usage.val,
                          !.alloc_map = [k \in (DOMAIN @) \ {ptr.alloc_id} |-> @[k]]],
        panic |-> FALSE, wrap |-> usage.ovf]

\* A create_fn_ptr that never consults function_alloc_cache.
create_fn_ptr_uncached(M, def) ==
    LET id == fresh_id(M) IN
    Return([M EXCEPT !.next_id = M.next_id + 1,
                     !.functions = [k \in (DOMAIN @) \cup {id} |->
                                       IF k = id THEN def ELSE @[k]],
                     !.function_alloc_cache = [d \in (DOMAIN @) \cup {def} |->
                                                  IF d = def THEN id ELSE @[d]]],
           "Ok", Pointer(id, 0))

\* Memory::create_fn_ptr
create_fn_ptr(M, def) ==
    IF def \in DOMAIN M.function_alloc_cache
    THEN Return(M, "Ok", Pointer(M.function_alloc_cache[def], 0))
    ELSE
    LET id == fresh_id(M) IN
    Return([M EXCEPT !.next_id = M.next_id + 1,
                     !.functions = [k \in (DOMAIN @) \cup {id} |->
                                       IF k = id THEN def ELSE @[k]],
                     !.function_alloc_cache = [d \in (DOMAIN @) \cup {def} |->
                                                  IF d = def THEN id ELSE @[d]]],
           "Ok", Pointer(id, 0))

\* ------------------------------------------------------------------ actions

\* The record of a call: the operation, its result and the pointer it returned.
Call(op, err, ret) == [op |-> op, err |-> err, ret |-> ret]

\* The pointers a program can hold: an issued id, any small offset.
Pointers == {Pointer(id, off) : id \in {i \in Ids : i < next_id}, off \in Offsets}

\* The pointer values a program stores with write_ptr.
PointerValues == {p \in Pointers : p.offset \in ValueOffsets}

\* The non-ZST byte allocations alive in alloc_map.
Live(am) == (DOMAIN am) \ {ZST_ALLOC_ID}

\* Memory::new
MemoryNew(size) ==
    /\ alloc_map = [k \in {ZST_ALLOC_ID} |->
                       Allocation(<<>>, EmptyMap, UndefMask_new(0), 0)]
    /\ memory_usage = 0
    /\ memory_size = size
    /\ functions = EmptyMap
    /\ function_alloc_cache = [d \in {} |-> 0]
    /\ next_id = 1
    /\ panicked = FALSE
    /\ wrapped = FALSE
    /\ last = Call("new", "Ok", NoPtr)
    /\ issued = {ZST_ALLOC_ID}
    /\ freed = {}

\* EvalContext::new: no statics, no frames; eval_main has not started.
EvalContextNew(limit, def_id, step_cap) ==
    /\ statics = EmptyMap
    /\ stack = <<>>
    /\ stack_limit = limit
    /\ frozen = {}
    /\ main_def = def_id
    /\ step_limit = step_cap
    /\ steps = 0
    /\ phase = "new"

\* Report::default(): no success, no failure of any category
ReportDefault ==
    [success |-> 0, mir_not_found |-> EmptyMap, crate_not_found |-> EmptyMap,
     failed |-> EmptyMap, c_abi_fns |-> EmptyMap, abi |-> EmptyMap,
     unsupported |-> EmptyMap, unimplemented_intrinsic |-> EmptyMap,
     limits |-> EmptyMap]

\* What run_inner returned: nothing yet, Ok(success), Err(report), or a panic
\* of the harness itself.
RunResult(tag, success, report) == [tag |-> tag, success |-> success, report |-> report]
NoResult == RunResult("none", 0, ReportDefault)

\* run_inner starts on the entries of the directory dir.
RunInnerStart(dir) ==
    /\ files = dir
    /\ run_report = ReportDefault
    /\ run_result = NoResult
    /\ ran = [ok |-> 0, panicked |-> 0]

\* A Memory used on its own, without an interpreter on top of it.
Init == MemoryNew(MemorySize) /\ EvalContextNew(0, "", 0) /\ RunInnerStart(<<>>)

\* The effect of a call of an operation of Memory whose result is r.
Apply(op, r) ==
    /\ alloc_map' = r.mem.alloc_map
    /\ memory_usage' = r.mem.memory_usage
    /\ functions' = r.mem.functions
    /\ function_alloc_cache' = r.mem.function_alloc_cache
    /\ next_id' = r.mem.next_id
    /\ panicked' = r.panic
    /\ wrapped' = (wrapped \/ r.wrap)
    /\ last' = Call(op, r.err, r.ret)
    /\ issued' = IF r.err = "Ok" /\ op # "deallocate"
                 THEN issued \cup {r.ret.alloc_id} ELSE issued
    /\ freed' = freed \cup ((DOMAIN alloc_map) \ (DOMAIN r.mem.alloc_map))
    /\ UNCHANGED memory_size
    /\ UNCHANGED evars
    /\ UNCHANGED hvars

\* The effect of a write whose result is r.
ApplyWrite(op, r) ==
    /\ alloc_map' = r.am
    /\ last' = Call(op, r.err, NoPtr)
    /\ UNCHANGED <<memory_usage, memory_size, functions, function_alloc_cache,
                   next_id, panicked, wrapped, issued, freed>>
    /\ UNCHANGED evars
    /\ UNCHANGED hvars

\* The effect of a read whose result is err, ret.
ApplyRead(op, err, ret) ==
    /\ last' = Call(op, err, ret)
    /\ UNCHANGED <<alloc_map, memory_usage, memory_size, functions,
                   function_alloc_cache, next_id, panicked, wrapped, issued, freed>>
    /\ UNCHANGED evars
    /\ UNCHANGED hvars

\* A new id may be issued: the model stops issuing ids at limit and holds at
\* most MaxLive byte allocations at a time.
MayIssue(limit) == next_id < limit
MayAllocate(limit) == MayIssue(limit) /\ Cardinality(Live(alloc_map)) < MaxLive

Allocate(limit) ==
    /\ ~panicked
    /\ \E size \in Sizes, align \in Aligns :
        /\ size > 0 => MayAllocate(limit)
        /\ \E r \in Outcomes(Mem, allocate(Mem, size, align)) : Apply("allocate", r)

Reallocate(limit) ==
    /\ ~panicked
    /\ \E ptr \in Pointers, new_size \in Sizes, align \in Aligns :
        /\ (points_to_zst(ptr) /\ new_size > 0) => MayAllocate(limit)
        /\ \E r \in Outcomes(Mem, reallocate(Mem, ptr, new_size, align)) :
              Apply("reallocate", r)

Deallocate ==
    /\ ~panicked
    /\ \E ptr \in Pointers :
        \E r \in Outcomes(Mem, deallocate(Mem, ptr)) : Apply("deallocate", r)

CreateFnPtr(limit) ==
    /\ ~panicked
    /\ \E def \in Defs :
        /\ def \notin DOMAIN function_alloc_cache => MayIssue(limit)
        /\ Apply("create_fn_ptr", create_fn_ptr(Mem, def))

WriteBytes ==
    /\ ~panicked
    /\ \E ptr \in Pointers, src \in ByteStrings :
        ApplyWrite("write_bytes", write_bytes(alloc_map, ptr, src))

WriteUint ==
    /\ ~panicked
    /\ \E ptr \in Pointers, size \in IntSizes, n \in UintValues :
        /\ n < Pow256(size)
        /\ ApplyWrite("write_uint", write_uint(alloc_map, ptr, n, size))

WritePtr ==
    /\ ~panicked
    /\ \E dest \in Pointers, ptr \in PointerValues :
        ApplyWrite("write_ptr", write_ptr(alloc_map, dest, ptr))

Copy ==
    /\ ~panicked
    /\ \E src \in Pointers, dest \in Pointers, size \in AccessSizes :
        ApplyWrite("copy", copy(alloc_map, src, dest, size))

ReadBytes ==
    /\ ~panicked
    /\ \E ptr \in Pointers, size \in Sizes :
        ApplyRead("read_bytes", read_bytes(alloc_map, ptr, size).err, NoPtr)

ReadUint ==
    /\ ~panicked
    /\ \E ptr \in Pointers, size \in IntSizes :
        ApplyRead("read_uint", read_uint(alloc_map, ptr, size).err, NoPtr)

ReadPtr ==
    /\ ~panicked
    /\ \E ptr \in Pointers :
        LET r == read_ptr(alloc_map, ptr) IN ApplyRead("read_ptr", r.err, r.ret)

WriteInt ==
    /\ ~panicked
    /\ \E ptr \in Pointers, size \in IntSizes, n \in IntValues :
        ApplyWrite("write_int", write_int(alloc_map, ptr, n, size))

ReadInt ==
    /\ ~panicked
    /\ \E ptr \in Pointers, size \in IntSizes :
        ApplyRead("read_int", read_int(alloc_map, ptr, size).err, NoPtr)

WriteBool ==
    /\ ~panicked
    /\ \E ptr \in Pointers, b \in BOOLEAN :
        ApplyWrite("write_bool", write_bool(alloc_map, ptr, b))

ReadBool ==
    /\ ~panicked
    /\ \E ptr \in Pointers :
        ApplyRead("read_bool", read_bool(alloc_map, ptr).err, NoPtr)

WriteFloat ==
    /\ ~panicked
    /\ \E ptr \in Pointers, size \in FloatSizes, bits \in FloatBits :
        ApplyWrite("write_float", write_float(alloc_map, ptr, bits, size))

ReadFloat ==
    /\ ~panicked
    /\ \E ptr \in Pointers, size \in FloatSizes :
        ApplyRead("read_float", read_float(alloc_map, ptr, size).err, NoPtr)

\* The allocation lifecycle: ids are issued up to MaxId.
Next ==
    \/ Allocate(MaxId)
    \/ Reallocate(MaxId)
    \/ Deallocate
    \/ CreateFnPtr(MaxId)

Spec == Init /\ [][Next]_vars

\* The contents of one allocation: ids are issued up to MaxIdBytes.
NextBytes ==
    \/ Allocate(MaxIdBytes)
    \/ Reallocate(MaxIdBytes)
    \/ WriteUint
    \/ WritePtr

SpecBytes == Init /\ [][NextBytes]_vars

\* Reads and writes of one allocation: ids are issued up to MaxIdBytes.
NextAccess ==
    \/ Allocate(MaxIdBytes)
    \/ WriteBytes
    \/ WriteUint
    \/ WritePtr
    \/ ReadBytes
    \/ ReadUint
    \/ ReadPtr

SpecAccess == Init /\ [][NextAccess]_vars

\* The pointers into the live non-ZST allocations.
LivePointers == {p \in Pointers : p.alloc_id \in Live(alloc_map)}

\* allocate of a buffer that holds one pointer-aligned pointer slot
AllocateSlot(limit) ==
    /\ ~panicked
    /\ MayAllocate(limit)
    /\ \E r \in Outcomes(Mem, allocate(Mem, MaxSize, I16Align)) : Apply("allocate", r)

\* The pointers into live non-ZST allocations with size bytes of buffer ahead.
LiveRanges(size) ==
    {p \in LivePointers : p.offset + size <= Len(alloc_map[p.alloc_id].bytes)}

\* write_ptr of a pointer into a live allocation to an in-bounds slot of one
WritePtrLive ==
    /\ ~panicked
    /\ \E dest \in LiveRanges(PointerSize), id \in Live(alloc_map) :
        ApplyWrite("write_ptr", write_ptr(alloc_map, dest, Pointer(id, 1)))

\* copy between in-bounds ranges of live allocations
CopyLive ==
    /\ ~panicked
    /\ \E size \in AccessSizes :
        \E src \in LiveRanges(size), dest \in LiveRanges(size) :
            ApplyWrite("copy", copy(alloc_map, src, dest, size))

\* Copies within and between two allocations: ids are issued up to MaxIdCopy.
NextCopy ==
    \/ AllocateSlot(MaxIdCopy)
    \/ WritePtrLive
    \/ CopyLive

SpecCopy == Init /\ [][NextCopy]_vars

\* ------------------------------------------------- the MIR of the programs

\* ty::layout::Struct: the offset of the byte after each field
Struct(offset_after_field) == [offset_after_field |-> offset_after_field]

\* ty::layout::Layout: Scalar, General { discr, variants }, RawNullablePointer
\* { nndiscr }, StructWrappedNullablePointer { nndiscr, nonnull, discrfield }
Scalar ==
    [tag |-> "Scalar", discr |-> "I8", variants |-> <<>>, nndiscr |-> 0,
     nonnull |-> Struct(<<>>), discrfield |-> <<>>]
General(discr, variants) ==
    [tag |-> "General", discr |-> discr, variants |-> variants, nndiscr |-> 0,
     nonnull |-> Struct(<<>>), discrfield |-> <<>>]
RawNullablePointer(nndiscr) ==
    [tag |-> "RawNullablePointer", discr |-> "I8", variants |-> <<>>,
     nndiscr |-> nndiscr, nonnull |-> Struct(<<>>), discrfield |-> <<>>]
StructWrappedNullablePointer(nndiscr, nonnull, discrfield) ==
    [tag |-> "StructWrappedNullablePointer", discr |-> "I8", variants |-> <<>>,
     nndiscr |-> nndiscr, nonnull |-> nonnull, discrfield |-> discrfield]

\* A type as the layout oracle describes it: its size, its alignment and its
\* layout.
TyLayout(size, align, layout) == [size |-> size, align |-> align, layout |-> layout]
Ty(size, align) == TyLayout(size, align, Scalar)
U8 == Ty(1, 1)
U16 == Ty(2, I16Align)
Unit == Ty(0, 1)
\* Box<u16>, a thin pointer
BoxU16 == Ty(PointerSize, PointerSize)

\* &'static T, a thin pointer
RefTy == Ty(PointerSize, PointerSize)

\* The statics that hold a reference to a static: "own" holds its own address,
\* "ping" and "pong" hold each other's.
\*   struct Own(&'static Own);     static OWN: Own = Own(&OWN);
\*   struct Ping(&'static Pong);   static PING: Ping = Ping(&PONG);
\*   struct Pong(&'static Ping);   static PONG: Pong = Pong(&PING);
RefStatics == {"own", "ping", "pong"}

\* mir::Lvalue; a Static carries the type of its item (the other statics of
\* the programs are u8).
ReturnPointer == [tag |-> "ReturnPointer", index |-> 0, def_id |-> ""]
Var(i) == [tag |-> "Var", index |-> i, def_id |-> ""]
Temp(i) == [tag |-> "Temp", index |-> i, def_id |-> ""]
Static(def_id) ==
    [tag |-> "Static", index |-> 0, def_id |-> def_id,
     ty |-> IF def_id \in RefStatics THEN RefTy ELSE U8]

\* mir::Lvalue::Projection with the elements Field(field, ty), Downcast(_,
\* variant) and Deref; ty is the type of the place the projection denotes.
Field(base, index, ty) ==
    [tag |-> "Field", index |-> index, def_id |-> "", base |-> base, ty |-> ty]
Downcast(base, variant, ty) ==
    [tag |-> "Downcast", index |-> variant, def_id |-> "", base |-> base, ty |-> ty]
Deref(base, ty) ==
    [tag |-> "Deref", index |-> 0, def_id |-> "", base |-> base, ty |-> ty]

\* mir::Operand: Consume(lvalue), and Constant with a literal Value, Item or
\* Promoted (the items of the programs are not functions).
Consume(lvalue) ==
    [tag |-> "Consume", lvalue |-> lvalue, value |-> 0, def_id |-> "", index |-> 0]
Value(n) ==
    [tag |-> "Value", lvalue |-> ReturnPointer, value |-> n, def_id |-> "", index |-> 0,
     ty |-> U8]
Value16(n) ==
    [tag |-> "Value", lvalue |-> ReturnPointer, value |-> n, def_id |-> "", index |-> 0,
     ty |-> U16]
Item(def_id) ==
    [tag |-> "Item", lvalue |-> ReturnPointer, value |-> 0, def_id |-> def_id, index |-> 0,
     ty |-> U8]
Promoted(index) ==
    [tag |-> "Promoted", lvalue |-> ReturnPointer, value |-> 0, def_id |-> "",
     index |-> index, ty |-> U8]

\* mir::Rvalue::Aggregate(AggregateKind::Adt(_, variant, ..), operands),
\* mir::Rvalue::Ref(_, _, lvalue) and mir::Rvalue::Box(ty); Rvalue::Use(operand)
\* is the operand itself.
Aggregate(variant, operands) ==
    [tag |-> "Aggregate", variant |-> variant, operands |-> operands]
Ref(lvalue) == [tag |-> "Ref", lvalue |-> lvalue]
Box(ty) == [tag |-> "Box", ty |-> ty]

\* mir::StatementKind::Assign(lvalue, rvalue)
Assign(lvalue, operand) == [lvalue |-> lvalue, operand |-> operand]

\* mir::TerminatorKind: Return, Goto { target }, and a Call without arguments
\* whose result goes to destination and that continues at target.
TerminatorReturn ==
    [tag |-> "Return", target |-> 0, def_id |-> "", destination |-> ReturnPointer]
TerminatorGoto(target) ==
    [tag |-> "Goto", target |-> target, def_id |-> "", destination |-> ReturnPointer]
TerminatorCall(def_id, destination, target) ==
    [tag |-> "Call", target |-> target, def_id |-> def_id, destination |-> destination]

\* mir::BasicBlockData
BasicBlock(statements, terminator) ==
    [statements |-> statements, terminator |-> terminator]

\* mir::Mir: the blocks, the declared types of the locals, the return type and
\* the promoted bodies.
Mir(basic_blocks, var_decls, temp_decls, return_ty, promoted) ==
    [basic_blocks |-> basic_blocks, arg_decls |-> <<>>, var_decls |-> var_decls,
     temp_decls |-> temp_decls, return_ty |-> return_ty, promoted |-> promoted]

\* The initializer of a static that holds the address of the static def_id.
RefBody(def_id) ==
    Mir(<<BasicBlock(<<Assign(ReturnPointer, Ref(Static(def_id)))>>, TerminatorReturn)>>,
        <<>>, <<>>, RefTy, <<>>)

\* A body that stores one literal in its return slot and returns.
LiteralBody(n) ==
    Mir(<<BasicBlock(<<Assign(ReturnPointer, Value(n))>>, TerminatorReturn)>>,
        <<>>, <<>>, U8, <<>>)

\* The statics of the programs: "d" and "e" are literals, "c" is initialized
\* from "d".
StaticDefs == {"c", "d", "e"}

\* The enums of the programs that assign aggregates, with the layout of a
\* target whose pointers take PointerSize bytes. A variant of a General layout
\* is a Struct whose first field is the discriminant: offset_after_field holds
\* the end of the discriminant, then the end of each field of the variant (a
\* field starts at the next multiple of its alignment).
\*   "s5"       enum E { A, B(u16) }
\*   "pad"      enum E { A(u8), B(u16) }
\*   "three"    enum E { A, B(u16, u8, u8) }
\*   "option"   Option<Box<u16>>
\*   "result"   Result<Box<u16>, Foo>, Foo being zero-sized
\*   "wrapped"  enum W { P(Box<u16>, u16), N }
\*   "wrapzst"  enum W { P(Box<u16>, u16), N(Foo) }
AggrMains == {"s5", "pad", "three", "option", "result", "wrapped", "wrapzst"}

EnumTy(def_id) ==
    CASE def_id = "s5" ->
            TyLayout(4, 2, General("I16", <<Struct(<<2>>), Struct(<<2, 4>>)>>))
      [] def_id = "pad" ->
            TyLayout(4, 2, General("I8", <<Struct(<<1, 2>>), Struct(<<1, 4>>)>>))
      [] def_id = "three" ->
            TyLayout(6, 2, General("I16", <<Struct(<<2>>), Struct(<<2, 4, 5, 6>>)>>))
      [] def_id = "option" -> TyLayout(PointerSize, PointerSize, RawNullablePointer(1))
      [] def_id = "result" -> TyLayout(PointerSize, PointerSize, RawNullablePointer(0))
      [] OTHER ->
            TyLayout(4, 2, StructWrappedNullablePointer(0, Struct(<<2, 4>>), <<0, 0>>))

\* The statements a program that assigns aggregates is made of: aggregates of
\* each variant assigned to the enum Var(0), fields of the variants read into
\* the temporaries, and for the enums that hold a box the allocation of the box
\* in Temp(0) and a store through it.
AggrStatements(def_id) ==
    LET E == EnumTy(def_id)
        field(v, j, ty) == Field(Downcast(Var(0), v, E), j, ty)
    IN
    CASE def_id = "s5" ->
            {Assign(Var(0), Aggregate(0, <<>>)),
             Assign(Var(0), Aggregate(1, <<Value16(7)>>)),
             Assign(Temp(1), Consume(field(1, 0, U16)))}
      [] def_id = "pad" ->
            {Assign(Var(0), Aggregate(0, <<Value(5)>>)),
             Assign(Var(0), Aggregate(1, <<Value16(7)>>)),
             Assign(Temp(2), Consume(field(0, 0, U8))),
             Assign(Temp(1), Consume(field(1, 0, U16)))}
      [] def_id = "three" ->
            {Assign(Var(0), Aggregate(0, <<>>)),
             Assign(Var(0), Aggregate(1, <<Value16(7), Value(5), Value(6)>>)),
             Assign(Temp(1), Consume(field(1, 0, U16))),
             Assign(Temp(2), Consume(field(1, 1, U8))),
             Assign(Temp(2), Consume(field(1, 2, U8)))}
      [] def_id = "option" ->
            {Assign(Temp(0), Box(U16)),
             Assign(Deref(Temp(0), U16), Value16(42)),
             Assign(Var(0), Aggregate(1, <<Consume(Temp(0))>>)),
             Assign(Var(0), Aggregate(0, <<>>)),
             Assign(Temp(1), Consume(Deref(field(1, 0, BoxU16), U16)))}
      [] def_id = "result" ->
            {Assign(Temp(0), Box(U16)),
             Assign(Var(0), Aggregate(0, <<Consume(Temp(0))>>)),
             Assign(Var(0), Aggregate(1, <<Consume(Temp(3))>>))}
      [] def_id = "wrapped" ->
            {Assign(Temp(0), Box(U16)),
             Assign(Var(0), Aggregate(0, <<Consume(Temp(0)), Value16(7)>>)),
             Assign(Var(0), Aggregate(1, <<>>)),
             Assign(Temp(1), Consume(field(0, 1, U16)))}
      [] OTHER ->
            {Assign(Temp(0), Box(U16)),
             Assign(Var(0), Aggregate(0, <<Consume(Temp(0)), Value16(7)>>)),
             Assign(Var(0), Aggregate(1, <<Consume(Temp(3))>>))}

\* The main functions of the programs.
\*   "main"  reads the static "c", writes to it, and reads its promoted 0;
\*   "two"   names two statics that are not computed yet in one statement;
\*   "spin"  loops for ever;
\*   "rec"   calls itself without end;
\*   "call"  calls "leaf" and returns;
\*   "empty" returns at once;
\*   "self"  stores the address of the static "own" in "own", whose initializer
\*           does the same;
\*   "mutual" stores the address of "pong" in "ping", whose initializers name
\*           each other.
Mains == {"main", "two", "spin", "rec", "call", "empty", "self", "mutual"}

\* mir_map: the MIR of every item.
mir_map(def_id) ==
    CASE def_id = "c" ->
            Mir(<<BasicBlock(<<Assign(ReturnPointer, Item("d"))>>, TerminatorReturn)>>,
                <<>>, <<>>, U8, <<>>)
      [] def_id = "d" -> LiteralBody(1)
      [] def_id = "e" -> LiteralBody(2)
      [] def_id = "leaf" -> LiteralBody(3)
      [] def_id = "own" -> RefBody("own")
      [] def_id = "ping" -> RefBody("pong")
      [] def_id = "pong" -> RefBody("ping")
      [] def_id = "self" ->
            Mir(<<BasicBlock(<<Assign(Static("own"), Ref(Static("own")))>>,
                             TerminatorReturn)>>,
                <<>>, <<>>, Unit, <<>>)
      [] def_id = "mutual" ->
            Mir(<<BasicBlock(<<Assign(Static("ping"), Ref(Static("pong")))>>,
                             TerminatorReturn)>>,
                <<>>, <<>>, Unit, <<>>)
      [] def_id = "main" ->
            Mir(<<BasicBlock(<<Assign(Temp(0), Item("c")),
                               Assign(Static("c"), Value(2)),
                               Assign(Var(0), Promoted(0))>>,
                             TerminatorReturn)>>,
                <<U8>>, <<U8>>, Unit, <<LiteralBody(3)>>)
      [] def_id = "two" ->
            Mir(<<BasicBlock(<<Assign(Static("e"), Item("d"))>>, TerminatorReturn)>>,
                <<>>, <<>>, Unit, <<>>)
      [] def_id = "spin" ->
            Mir(<<BasicBlock(<<>>, TerminatorGoto(0))>>, <<>>, <<>>, Unit, <<>>)
      [] def_id = "rec" ->
            Mir(<<BasicBlock(<<>>, TerminatorCall("rec", ReturnPointer, 1)),
                  BasicBlock(<<>>, TerminatorReturn)>>,
                <<>>, <<>>, Unit, <<>>)
      [] def_id = "call" ->
            Mir(<<BasicBlock(<<>>, TerminatorCall("leaf", Static("e"), 1)),
                  BasicBlock(<<>>, TerminatorReturn)>>,
                <<>>, <<U8>>, Unit, <<>>)
      [] def_id \in AggrMains ->
            Mir(<<BasicBlock(<<>>, TerminatorReturn)>>,
                <<EnumTy(def_id)>>, <<BoxU16, U16, U8, Unit>>, Unit, <<>>)
      [] OTHER ->
            Mir(<<BasicBlock(<<>>, TerminatorReturn)>>, <<>>, <<>>, Unit, <<>>)

\* ------------------------------------------------------------ EvalContext

\* let x = v: v is evaluated once and handed to Op.
Let(v, Op(_)) == CHOOSE y \in {Op(x) : x \in {v}} : TRUE

\* struct EvalContext: the fields as one value
Ecx ==
    [memory |-> Mem, statics |-> statics, stack |-> stack,
     stack_limit |-> stack_limit, frozen |-> frozen]

\* The result of an operation of EvalContext: Ok or the error, the context it
\* leaves, and whether the process aborted on a failed expect.
EResult(E, err) == [err |-> err, ecx |-> E, panic |-> FALSE]
EPanic(E) == [err |-> "panic", ecx |-> E, panic |-> TRUE]

\* struct ConstantId, enum ConstantKind (the substs of the programs are empty)
Global == [tag |-> "Global", index |-> 0]
PromotedKind(index) == [tag |-> "Promoted", index |-> index]
ConstantId(def_id, kind) == [def_id |-> def_id, substs |-> "empty", kind |-> kind]

\* enum StackPopCleanup
Freeze(alloc_id) == [tag |-> "Freeze", alloc_id |-> alloc_id, target |-> 0]
Goto(target) == [tag |-> "Goto", alloc_id |-> 0, target |-> target]
StackPopCleanupNone == [tag |-> "None", alloc_id |-> 0, target |-> 0]

\* HashMap::insert
Insert(map, key, value) ==
    [k \in (DOMAIN map) \cup {key} |-> IF k = key THEN value ELSE map[k]]

\* EvalContext::load_mir
load_mir(def_id) == mir_map(def_id)

\* EvalContext::alloc_ret_ptr
alloc_ret_ptr(E, ty) == allocate(E.memory, ty.size, ty.align)

\* The locals of push_stack_frame: one allocation per declared local, in
\* order; collecting stops at the first error and keeps what was allocated.
RECURSIVE AllocLocals(_, _, _)
AllocLocals(M, tys, locals) ==
    IF tys = <<>> THEN [err |-> "Ok", locals |-> locals, mem |-> M]
    ELSE
    LET r == allocate(M, Head(tys).size, Head(tys).align) IN
    IF r.err # "Ok" THEN [err |-> r.err, locals |-> locals, mem |-> r.mem]
    ELSE AllocLocals(r.mem, Tail(tys), Append(locals, r.ret))

\* struct Frame, as push_stack_frame builds it
Frame(def_id, mir, return_ptr, return_to_block, locals) ==
    [mir |-> mir, def_id |-> def_id, return_ptr |-> return_ptr,
     return_to_block |-> return_to_block, locals |-> locals,
     var_offset |-> Len(mir.arg_decls),
     temp_offset |-> Len(mir.arg_decls) + Len(mir.var_decls),
     block |-> 0, stmt |-> 0]

\* A push that refuses the frame which makes the depth equal to stack_limit.
push_stack_frame_off_by_one(E, def_id, mir, return_ptr, return_to_block) ==
    Let(AllocLocals(E.memory, mir.arg_decls \o mir.var_decls \o mir.temp_decls, <<>>),
        LAMBDA l :
            IF l.err # "Ok" THEN EResult([E EXCEPT !.memory = l.mem], l.err)
            ELSE
            Let([E EXCEPT !.memory = l.mem,
                          !.stack = Append(@, Frame(def_id, mir, return_ptr,
                                                    return_to_block, l.locals))],
                LAMBDA E2 :
                    IF Len(E2.stack) >= E2.stack_limit
                    THEN EResult(E2, "StackFrameLimitReached")
                    ELSE EResult(E2, "Ok")))

\* EvalContext::push_stack_frame
push_stack_frame(E, def_id, mir, return_ptr, return_to_block) ==
    Let(AllocLocals(E.memory, mir.arg_decls \o mir.var_decls \o mir.temp_decls, <<>>),
        LAMBDA l :
            IF l.err # "Ok" THEN EResult([E EXCEPT !.memory = l.mem], l.err)
            ELSE
            Let([E EXCEPT !.memory = l.mem,
                          !.stack = Append(@, Frame(def_id, mir, return_ptr,
                                                    return_to_block, l.locals))],
                LAMBDA E2 :
                    IF Len(E2.stack) > E2.stack_limit
                    THEN EResult(E2, "StackFrameLimitReached")
                    ELSE EResult(E2, "Ok")))

\* EvalContext::frame
frame(E) == E.stack[Len(E.stack)]

\* Memory::freeze: the allocation becomes read-only.
freeze(E, alloc_id) == EResult([E EXCEPT !.frozen = @ \cup {alloc_id}], "Ok")

\* EvalContext::goto_block: the top frame continues at the start of target.
goto_block(E, target) ==
    IF E.stack = <<>> THEN EPanic(E)
    ELSE EResult([E EXCEPT !.stack[Len(E.stack)].block = target,
                           !.stack[Len(E.stack)].stmt = 0], "Ok")

\* EvalContext::pop_stack_frame
pop_stack_frame(E) ==
    IF E.stack = <<>> THEN EPanic(E)
    ELSE
    LET cleanup == frame(E).return_to_block
        E1 == [E EXCEPT !.stack = SubSeq(@, 1, Len(@) - 1)]
    IN
    CASE cleanup.tag = "Freeze" -> freeze(E1, cleanup.alloc_id)
      [] cleanup.tag = "Goto" -> goto_block(E1, cleanup.target)
      [] OTHER -> EResult(E1, "Ok")

\* IntegerExt::size, in bytes
IntegerSize(discr) ==
    CASE discr = "I8" -> 1
      [] discr = "I16" -> 2
      [] discr = "I32" -> 4
      [] OTHER -> 8

\* StructExt::field_offset: 0 for the first field, offset_after_field[index - 1]
\* (counted from 0) for the others
field_offset(variant, index) ==
    IF index = 0 THEN 0 ELSE variant.offset_after_field[index]

\* adt_def.variants[variant].disr_val of an enum without explicit values
disr_val(variant) == variant

\* Memory::write_isize
write_isize(am, ptr, n) == write_int(am, ptr, n, PointerSize)

\* EvalContext::lvalue_ty
RECURSIVE lvalue_ty(_, _)
lvalue_ty(E, lvalue) ==
    CASE lvalue.tag = "ReturnPointer" -> frame(E).mir.return_ty
      [] lvalue.tag = "Var" -> frame(E).mir.var_decls[lvalue.index + 1]
      [] lvalue.tag = "Temp" -> frame(E).mir.temp_decls[lvalue.index + 1]
      [] OTHER -> lvalue.ty

\* struct Lvalue { ptr, extra } as eval_lvalue returns it, with the error or
\* the panic that kept it from returning one.
LvalueExtraNone == [tag |-> "None", variant |-> 0]
DowncastVariant(variant) == [tag |-> "DowncastVariant", variant |-> variant]
LvalueOk(ptr, extra) == [err |-> "Ok", ptr |-> ptr, extra |-> extra, panic |-> FALSE]
LvalueErr(err) == [err |-> err, ptr |-> NoPtr, extra |-> LvalueExtraNone, panic |-> FALSE]
LvaluePanic == [err |-> "panic", ptr |-> NoPtr, extra |-> LvalueExtraNone, panic |-> TRUE]

\* EvalContext::eval_lvalue: the locals, the statics (a panic when the table has
\* no entry) and the projections Field, Downcast and Deref of a thin pointer.
RECURSIVE eval_lvalue(_, _)
eval_lvalue(E, lvalue) ==
    CASE lvalue.tag = "ReturnPointer" -> LvalueOk(frame(E).return_ptr, LvalueExtraNone)
      [] lvalue.tag = "Var" ->
            LvalueOk(frame(E).locals[frame(E).var_offset + lvalue.index + 1],
                     LvalueExtraNone)
      [] lvalue.tag = "Temp" ->
            LvalueOk(frame(E).locals[frame(E).temp_offset + lvalue.index + 1],
                     LvalueExtraNone)
      [] lvalue.tag = "Static" ->
            LET cid == ConstantId(lvalue.def_id, Global) IN
            IF cid \in DOMAIN E.statics
            THEN LvalueOk(E.statics[cid], LvalueExtraNone)
            ELSE LvaluePanic
      [] OTHER ->
            Let(eval_lvalue(E, lvalue.base),
                LAMBDA base :
                    IF base.err # "Ok" THEN base
                    ELSE
                    Let(lvalue_ty(E, lvalue.base).layout,
                        LAMBDA base_layout :
                    CASE lvalue.tag = "Field" ->
                            CASE base_layout.tag = "General" ->
                                    IF base.extra.tag # "DowncastVariant"
                                    THEN LvaluePanic
                                    ELSE
                                    Let(base_layout.variants[base.extra.variant + 1],
                                        LAMBDA variant :
                                    IF lvalue.index > Len(variant.offset_after_field)
                                    THEN LvaluePanic
                                    ELSE LvalueOk(PtrOffset(base.ptr,
                                                            field_offset(variant, lvalue.index)),
                                                  LvalueExtraNone))
                              [] base_layout.tag = "RawNullablePointer" ->
                                    IF lvalue.index # 0 THEN LvaluePanic ELSE base
                              [] base_layout.tag = "StructWrappedNullablePointer" ->
                                    IF lvalue.index > Len(base_layout.nonnull.offset_after_field)
                                    THEN LvaluePanic
                                    ELSE LvalueOk(PtrOffset(base.ptr,
                                                            field_offset(base_layout.nonnull,
                                                                         lvalue.index)),
                                                  LvalueExtraNone)
                              [] OTHER -> LvaluePanic
                      [] lvalue.tag = "Downcast" ->
                            CASE base_layout.tag = "General" ->
                                    LvalueOk(PtrOffset(base.ptr, IntegerSize(base_layout.discr)),
                                             DowncastVariant(lvalue.index))
                              [] base_layout.tag \in {"RawNullablePointer",
                                                      "StructWrappedNullablePointer"} -> base
                              [] OTHER -> LvaluePanic
                      [] OTHER ->
                            Let(read_ptr(E.memory.alloc_map, base.ptr),
                                LAMBDA p :
                                    IF p.err # "Ok" THEN LvalueErr(p.err)
                                    ELSE LvalueOk(p.ret, LvalueExtraNone))))

\* Lvalue::to_ptr: the pointer of an lvalue without extra, a panic otherwise
to_ptr(lv) ==
    Let(lv, LAMBDA l : IF l.err = "Ok" /\ l.extra # LvalueExtraNone THEN LvaluePanic ELSE l)

\* EvalContext::const_to_ptr for a u8 or u16 literal: i2p!(i, 1), i2p!(i, 2)
const_to_ptr(E, const_val) ==
    Let(allocate(E.memory, const_val.ty.size, const_val.ty.size),
        LAMBDA a :
            IF a.err # "Ok"
            THEN [err |-> a.err, ptr |-> NoPtr, ecx |-> E, panic |-> FALSE]
            ELSE
            Let(write_int(a.mem.alloc_map, a.ret, const_val.value, const_val.ty.size),
                LAMBDA w :
                    [err |-> w.err, ptr |-> a.ret,
                     ecx |-> [E EXCEPT !.memory = [a.mem EXCEPT !.alloc_map = w.am]],
                     panic |-> FALSE]))

\* EvalContext::eval_operand
eval_operand(E, op) ==
    CASE op.tag = "Consume" ->
            Let(to_ptr(eval_lvalue(E, op.lvalue)),
                LAMBDA l : [err |-> l.err, ptr |-> l.ptr, ecx |-> E, panic |-> l.panic])
      [] op.tag = "Value" -> const_to_ptr(E, op)
      [] OTHER ->
            LET cid == IF op.tag = "Item"
                       THEN ConstantId(op.def_id, Global)
                       ELSE ConstantId(frame(E).def_id, PromotedKind(op.index))
            IN
            IF cid \in DOMAIN E.statics
            THEN [err |-> "Ok", ptr |-> E.statics[cid], ecx |-> E, panic |-> FALSE]
            ELSE [err |-> "panic", ptr |-> NoPtr, ecx |-> E, panic |-> TRUE]

\* EvalContext::operand_ty
operand_ty(E, op) ==
    CASE op.tag = "Consume" -> lvalue_ty(E, op.lvalue)
      [] OTHER -> op.ty

\* A move that copies nothing.
move_nothing(E, src, dest, ty) == EResult(E, "Ok")

\* EvalContext::move_
move_(E, src, dest, ty) ==
    Let(copy(E.memory.alloc_map, src, dest, ty.size),
        LAMBDA c : EResult([E EXCEPT !.memory.alloc_map = c.am], c.err))

\* The types of the operands (EvalContext::operand_ty of each)
operand_tys(E, operands) == [i \in 1 .. Len(operands) |-> operand_ty(E, operands[i])]

\* EvalContext::assign_fields: the operands zipped with the offsets, each one
\* evaluated and moved with the type tys gives it. An aggregate moves its
\* operands with their own types (operand_tys), Rvalue::Use moves its operand to
\* offset 0 with the type of the destination.
RECURSIVE assign_fields(_, _, _, _, _)
assign_fields(E, dest, offsets, operands, tys) ==
    IF offsets = <<>> \/ operands = <<>> THEN EResult(E, "Ok")
    ELSE
    Let(eval_operand(E, Head(operands)),
        LAMBDA src :
            IF src.panic THEN EPanic(src.ecx)
            ELSE IF src.err # "Ok" THEN EResult(src.ecx, src.err)
            ELSE
            Let(move_(src.ecx, src.ptr, PtrOffset(dest, Head(offsets)), Head(tys)),
                LAMBDA m :
                    IF m.err # "Ok" THEN m
                    ELSE assign_fields(m.ecx, dest, Tail(offsets), Tail(operands),
                                       Tail(tys))))

\* EvalContext::nonnull_offset for a discrfield path [0, index]: the rest of
\* the path is empty and field_path_offset returns 0.
nonnull_offset(ty, nndiscr, discrfield) == 0

\* The result of a write to memory as a result of the context.
MemResult(E, w) ==
    Let(w, LAMBDA r : EResult([E EXCEPT !.memory.alloc_map = r.am], r.err))

\* What an assignment does before it moves operands, and the operands it has
\* still to move: the context after the writes, and the offsets, the operands
\* and their types for assign_fields.
Moves(r, offsets, operands, tys) ==
    [err |-> r.err, panic |-> r.panic, ecx |-> r.ecx, offsets |-> offsets,
     operands |-> operands, tys |-> tys]

\* EvalContext::eval_assignment for Rvalue::Aggregate of an enum, up to the
\* moves of the operands: the discriminant of a General layout, the assertions
\* on the number of operands and the zero of a null variant.
eval_aggregate(E, dest, dest_ty, dest_layout, variant, operands) ==
    CASE dest_layout.tag = "General" ->
            Moves(MemResult(E, write_uint(E.memory.alloc_map, dest, disr_val(variant),
                                          IntegerSize(dest_layout.discr))),
                  dest_layout.variants[variant + 1].offset_after_field,
                  operands, operand_tys(E, operands))
      [] dest_layout.tag \in {"RawNullablePointer", "StructWrappedNullablePointer"} ->
            IF dest_layout.nndiscr = variant
            THEN IF dest_layout.tag = "RawNullablePointer"
                 THEN IF Len(operands) # 1 THEN Moves(EPanic(E), <<>>, <<>>, <<>>)
                      ELSE Moves(EResult(E, "Ok"), <<0>>, operands,
                                 operand_tys(E, operands))
                 ELSE Moves(EResult(E, "Ok"),
                            <<0>> \o dest_layout.nonnull.offset_after_field,
                            operands, operand_tys(E, operands))
            ELSE IF Len(operands) # 0 THEN Moves(EPanic(E), <<>>, <<>>, <<>>)
                 ELSE Moves(MemResult(E, write_isize(
                                E.memory.alloc_map,
                                IF dest_layout.tag = "RawNullablePointer" THEN dest
                                ELSE PtrOffset(dest,
                                               nonnull_offset(dest_ty, dest_layout.nndiscr,
                                                              dest_layout.discrfield)),
                                0)),
                            <<>>, <<>>, <<>>)
      [] OTHER -> Moves(EResult(E, "Unimplemented"), <<>>, <<>>, <<>>)

\* EvalContext::eval_assignment for Rvalue::Box: the allocation and the
\* pointer to it written to dest.
eval_box(E, dest, ty) ==
    Let(allocate(E.memory, ty.size, ty.align),
        LAMBDA a :
            IF a.err # "Ok" THEN EResult(E, a.err)
            ELSE MemResult([E EXCEPT !.memory = a.mem],
                           write_ptr(a.mem.alloc_map, dest, a.ret)))

\* EvalContext::get_fat_ptr: the address word and the extra word
get_fat_ptr(ptr) == <<ptr, PtrOffset(ptr, PointerSize)>>

\* EvalContext::eval_assignment, the arm Rvalue::Ref: the address of the
\* lvalue goes to the first word of dest (the lvalues of the programs carry no
\* length and no vtable; a reference to a downcast is a bug!).
eval_ref(E, dest, lvalue) ==
    Let(eval_lvalue(E, lvalue),
        LAMBDA lv :
            IF lv.panic THEN EPanic(E)
            ELSE IF lv.err # "Ok" THEN EResult(E, lv.err)
            ELSE IF lv.extra # LvalueExtraNone THEN EPanic(E)
            ELSE MemResult(E, write_ptr(E.memory.alloc_map, get_fat_ptr(dest)[1],
                                        lv.ptr)))

\* EvalContext::eval_assignment for Rvalue::Use, Rvalue::Aggregate of an enum,
\* Rvalue::Ref and Rvalue::Box: what the rvalue writes first, then the moves
\* of its operands.
eval_assignment(E, lvalue, operand) ==
    Let(to_ptr(eval_lvalue(E, lvalue)),
        LAMBDA dest :
            IF dest.panic THEN EPanic(E)
            ELSE IF dest.err # "Ok" THEN EResult(E, dest.err)
            ELSE
            Let(lvalue_ty(E, lvalue),
                LAMBDA dest_ty :
                    Let(CASE operand.tag = "Aggregate" ->
                                 eval_aggregate(E, dest.ptr, dest_ty, dest_ty.layout,
                                                operand.variant, operand.operands)
                          [] operand.tag = "Ref" ->
                                 Moves(eval_ref(E, dest.ptr, operand.lvalue),
                                       <<>>, <<>>, <<>>)
                          [] operand.tag = "Box" ->
                                 Moves(eval_box(E, dest.ptr, operand.ty), <<>>, <<>>, <<>>)
                          [] OTHER ->
                                 Moves(EResult(E, "Ok"), <<0>>, <<operand>>, <<dest_ty>>),
                        LAMBDA h :
                            IF h.panic THEN EPanic(h.ecx)
                            ELSE IF h.err # "Ok" THEN EResult(h.ecx, h.err)
                            ELSE assign_fields(h.ecx, dest.ptr, h.offsets, h.operands,
                                               h.tys))))

\* A statement that is executed without the frame moving on to the next one.
statement_no_advance(E, stmt) == eval_assignment(E, stmt.lvalue, stmt.operand)

\* EvalContext::statement
statement(E, stmt) ==
    Let(eval_assignment(E, stmt.lvalue, stmt.operand),
        LAMBDA r :
            IF r.err # "Ok" THEN r
            ELSE EResult([r.ecx EXCEPT !.stack[Len(r.ecx.stack)].stmt = @ + 1], "Ok"))

\* EvalContext::eval_terminator
eval_terminator(E, terminator) ==
    CASE terminator.tag = "Return" -> pop_stack_frame(E)
      [] terminator.tag = "Goto" -> goto_block(E, terminator.target)
      [] OTHER ->
            Let(eval_lvalue(E, terminator.destination),
                LAMBDA dest :
                    IF dest.panic THEN EPanic(E)
                    ELSE push_stack_frame(E, terminator.def_id,
                                          load_mir(terminator.def_id), dest.ptr,
                                          Goto(terminator.target)))

\* EvalContext::terminator
terminator(E, term) == eval_terminator(E, term)

\* ------------------------------------------------------ ConstantExtractor

\* struct ConstantExtractor: the context it works on and new_constants, the
\* number of frames pushed so far or the first error.
Extractor(E, err, n, panic) ==
    [ecx |-> E, new_constants |-> [err |-> err, n |-> n], panic |-> panic]

\* A closure that pushes the frame of a constant without entering the
\* constant in statics.
push_constant_unrecorded(E, cid, def_id, mir) ==
    Let(alloc_ret_ptr(E, mir.return_ty),
        LAMBDA a :
            IF a.err # "Ok" THEN EResult([E EXCEPT !.memory = a.mem], a.err)
            ELSE push_stack_frame([E EXCEPT !.memory = a.mem], def_id, mir, a.ret,
                                  StackPopCleanupNone))

\* The closure global_item and visit_constant hand to try: allocate the return
\* slot, enter it in statics, push the frame that computes the constant.
push_constant(E, cid, def_id, mir) ==
    Let(alloc_ret_ptr(E, mir.return_ty),
        LAMBDA a :
            IF a.err # "Ok" THEN EResult([E EXCEPT !.memory = a.mem], a.err)
            ELSE Let([E EXCEPT !.memory = a.mem, !.statics = Insert(@, cid, a.ret)],
                     LAMBDA E1 : push_stack_frame(E1, def_id, mir, a.ret,
                                                  StackPopCleanupNone)))

\* ConstantExtractor::try, f(E) being what the closure does to the context E
try(X, f(_)) ==
    IF X.new_constants.err # "Ok" THEN X
    ELSE Let(f(X.ecx),
             LAMBDA r :
                 IF r.err # "Ok" THEN Extractor(r.ecx, r.err, 0, r.panic)
                 ELSE Extractor(r.ecx, "Ok", X.new_constants.n + 1, FALSE))

\* An extractor that computes a global item each time it is named.
global_item_uncached(X, def_id) ==
    try(X, LAMBDA E : push_constant(E, ConstantId(def_id, Global), def_id,
                                    load_mir(def_id)))

\* ConstantExtractor::global_item
global_item(X, def_id) ==
    LET cid == ConstantId(def_id, Global) IN
    IF cid \in DOMAIN X.ecx.statics THEN X
    ELSE try(X, LAMBDA E : push_constant(E, cid, def_id, load_mir(def_id)))

\* ConstantExtractor::visit_lvalue
visit_lvalue(X, lvalue) ==
    IF lvalue.tag = "Static" THEN global_item(X, lvalue.def_id) ELSE X

\* ConstantExtractor::visit_constant, def_id and mir being the extractor's
visit_constant(X, constant, def_id, mir) ==
    CASE constant.tag = "Value" -> X
      [] constant.tag = "Item" -> global_item(X, constant.def_id)
      [] OTHER ->
            LET cid == ConstantId(def_id, PromotedKind(constant.index)) IN
            IF cid \in DOMAIN X.ecx.statics THEN X
            ELSE try(X, LAMBDA E : push_constant(E, cid, def_id,
                                                 mir.promoted[constant.index + 1]))

\* A visitor that does not look into the lvalue a reference is taken of.
visit_operand_skips_ref(X, operand, def_id, mir) ==
    IF operand.tag = "Consume" THEN visit_lvalue(X, operand.lvalue)
    ELSE IF operand.tag = "Ref" THEN X
    ELSE visit_constant(X, operand, def_id, mir)

\* Visitor::visit_operand, and Visitor::visit_rvalue for Rvalue::Ref, which
\* visits the lvalue the reference is taken of
visit_operand(X, operand, def_id, mir) ==
    IF operand.tag \in {"Consume", "Ref"} THEN visit_lvalue(X, operand.lvalue)
    ELSE visit_constant(X, operand, def_id, mir)

\* Visitor::visit_statement: the assigned lvalue, then the operand
visit_statement(X, stmt, def_id, mir) ==
    Let(visit_lvalue(X, stmt.lvalue),
        LAMBDA X1 : visit_operand(X1, stmt.operand, def_id, mir))

\* Visitor::visit_terminator: the destination of a call
visit_terminator(X, term) ==
    IF term.tag = "Call" THEN visit_lvalue(X, term.destination) ELSE X

\* ------------------------------------------------------------------- step

\* The result of step: Ok(val) or the error, and the context step leaves.
StepResult(err, val, E, panic) ==
    [err |-> err, val |-> val, ecx |-> E, panic |-> panic]

\* A stepper that reports progress whatever the state of the stack.
step_always_true(E) == StepResult("Ok", TRUE, E, FALSE)

\* EvalContext::step
step(E) ==
    IF E.stack = <<>> THEN StepResult("Ok", FALSE, E, FALSE)
    ELSE
    LET block == frame(E).block
        stmt == frame(E).stmt
        mir == frame(E).mir
        basic_block == mir.basic_blocks[block + 1]
        X0 == Extractor(E, "Ok", 0, FALSE)
    IN
    IF stmt < Len(basic_block.statements)
    THEN
        Let(visit_statement(X0, basic_block.statements[stmt + 1], frame(E).def_id, mir),
            LAMBDA X :
                IF X.new_constants.err # "Ok"
                THEN StepResult(X.new_constants.err, FALSE, X.ecx, X.panic)
                ELSE IF X.new_constants.n = 0
                THEN Let(statement(X.ecx, basic_block.statements[stmt + 1]),
                         LAMBDA r :
                             IF r.err # "Ok"
                             THEN StepResult(r.err, FALSE, r.ecx, r.panic)
                             ELSE StepResult("Ok", TRUE, r.ecx, FALSE))
                ELSE StepResult("Ok", TRUE, X.ecx, FALSE))
    ELSE
        Let(visit_terminator(X0, basic_block.terminator),
            LAMBDA X :
                IF X.new_constants.err # "Ok"
                THEN StepResult(X.new_constants.err, FALSE, X.ecx, X.panic)
                ELSE IF X.new_constants.n = 0
                THEN Let(terminator(X.ecx, basic_block.terminator),
                         LAMBDA r :
                             IF r.err # "Ok"
                             THEN StepResult(r.err, FALSE, r.ecx, r.panic)
                             ELSE StepResult("Ok", TRUE, r.ecx, FALSE))
                ELSE StepResult("Ok", TRUE, X.ecx, FALSE))

\* -------------------------------------------------------------- eval_main

\* report: the diagnostic needs the top frame.
report(E, e) == IF E.stack = <<>> THEN EPanic(E) ELSE EResult(E, e)

\* The context E becomes the state of the interpreter.
SetEcx(E) ==
    /\ alloc_map' = E.memory.alloc_map
    /\ memory_usage' = E.memory.memory_usage
    /\ functions' = E.memory.functions
    /\ function_alloc_cache' = E.memory.function_alloc_cache
    /\ next_id' = E.memory.next_id
    /\ statics' = E.statics
    /\ stack' = E.stack
    /\ frozen' = E.frozen
    /\ issued' = issued \cup (DOMAIN E.memory.alloc_map)
    /\ UNCHANGED <<memory_size, stack_limit, wrapped, freed, main_def, step_limit>>
    /\ UNCHANGED hvars

\* eval_main up to its loop: the return slot of main and the first frame, both
\* under expect (the main functions of the programs take no arguments).
EvalMainStart ==
    /\ phase = "new" /\ main_def \in Mains \cup AggrMains
    /\ \E mir \in {load_mir(main_def)} :
       \E a \in {alloc_ret_ptr(Ecx, mir.return_ty)} :
       \E r \in {push_stack_frame([Ecx EXCEPT !.memory = a.mem], main_def, mir, a.ret,
                                  StackPopCleanupNone)} :
          IF a.err # "Ok"
          THEN /\ SetEcx([Ecx EXCEPT !.memory = a.mem])
               /\ last' = Call("alloc_ret_ptr", a.err, NoPtr)
               /\ panicked' = TRUE
               /\ phase' = "aborted"
          ELSE /\ SetEcx(r.ecx)
               /\ last' = Call("push_stack_frame", r.err, a.ret)
               /\ panicked' = (r.err # "Ok")
               /\ phase' = IF r.err = "Ok" THEN "running" ELSE "aborted"
    /\ UNCHANGED steps

\* One iteration of the loop of eval_main: a call of step, and the report of
\* the error it returns.
EvalMainStep ==
    /\ phase = "running" /\ steps < step_limit
    /\ \E r \in {step(Ecx)} :
       \E d \in {report(r.ecx, r.err)} :
          /\ SetEcx(r.ecx)
          /\ steps' = steps + 1
          /\ last' = Call("step",
                          IF r.err # "Ok" THEN r.err
                          ELSE IF r.val THEN "Ok(true)" ELSE "Ok(false)",
                          NoPtr)
          /\ panicked' = (r.panic \/ (r.err # "Ok" /\ d.panic))
          /\ phase' = IF r.panic \/ (r.err # "Ok" /\ d.panic) THEN "aborted"
                      ELSE IF r.err # "Ok" THEN "reported"
                      ELSE IF r.val THEN "running" ELSE "returned"

\* The loop of eval_main has made step_limit iterations: the report of
\* ExecutionTimeLimitReached.
EvalMainTimeLimit ==
    /\ phase = "running" /\ steps = step_limit
    /\ LET d == report(Ecx, "ExecutionTimeLimitReached") IN
       /\ last' = Call("report", "ExecutionTimeLimitReached", NoPtr)
       /\ panicked' = d.panic
       /\ phase' = IF d.panic THEN "aborted" ELSE "reported"
    /\ UNCHANGED <<alloc_map, memory_usage, memory_size, functions,
                   function_alloc_cache, next_id, wrapped, issued, freed, statics,
                   stack, stack_limit, frozen, main_def, step_limit, steps>>
    /\ UNCHANGED hvars

\* eval_main is given a program, a memory size, a step limit and a stack limit.
InitEval ==
    \E size \in EvalMemorySizes, limit \in StackLimits, def_id \in Mains,
       step_cap \in StepLimits :
        MemoryNew(size) /\ EvalContextNew(limit, def_id, step_cap) /\ RunInnerStart(<<>>)

NextEval ==
    \/ EvalMainStart
    \/ EvalMainStep
    \/ EvalMainTimeLimit

SpecEval == InitEval /\ [][NextEval]_vars

\* --------------------------------------------------- aggregate assignments

\* One assignment of a program that assigns aggregates, executed in the frame
\* of its main function: eval_assignment, and the abort or the report of step's
\* caller when it fails.
EvalAssignment ==
    /\ phase = "running" /\ steps < step_limit
    /\ main_def \in AggrMains
    /\ \E stmt \in AggrStatements(main_def) :
       \E r \in {eval_assignment(Ecx, stmt.lvalue, stmt.operand)} :
          /\ SetEcx(r.ecx)
          /\ steps' = steps + 1
          /\ last' = Call("eval_assignment", r.err, eval_lvalue(Ecx, stmt.lvalue).ptr)
          /\ panicked' = r.panic
          /\ phase' = IF r.panic THEN "aborted"
                      ELSE IF r.err # "Ok" THEN "reported" ELSE "running"

\* The programs that assign aggregates run with memory for their locals and
\* for MaxAssignments assignments.
InitAggr ==
    \E def_id \in AggrMains :
        /\ MemoryNew(AggrMemorySize) /\ EvalContextNew(1, def_id, MaxAssignments)
        /\ RunInnerStart(<<>>)

NextAggr ==
    \/ EvalMainStart
    \/ EvalAssignment

SpecAggr == InitAggr /\ [][NextAggr]_vars

\* ------------------------------------------------------------------ claims

\* Every byte of the allocation is undefined, one init bit per byte.
AllUndefined(alloc) ==
    /\ alloc.undef_mask.len = Len(alloc.bytes)
    /\ \A i \in 0 .. (Len(alloc.bytes) - 1) : ~UndefMask_get(alloc.undef_mask, i)

\* C1: in every reachable state a successful allocate(size, align) with size > 0
\* returns a pointer (id, align) whose id was never issued before, and the
\* memory it leaves holds under that id size + align zero bytes, all undefined
\* (every one-byte read fails with ReadUndefBytes), with no relocation; the
\* allocations that existed are untouched.
C1_AllocateFresh ==
    \A size \in Sizes \ {0}, align \in Aligns :
        LET r == allocate(Mem, size, align)
            id == r.ret.alloc_id
        IN r.err = "Ok" =>
            /\ id \notin issued
            /\ id \notin (DOMAIN alloc_map) \cup (DOMAIN functions)
            /\ id \in DOMAIN r.mem.alloc_map
            /\ r.ret.offset = align
            /\ Len(r.mem.alloc_map[id].bytes) = size + align
            /\ AllUndefined(r.mem.alloc_map[id])
            /\ DOMAIN r.mem.alloc_map[id].relocations = {}
            /\ r.mem.alloc_map[id].align = align
            /\ \A i \in 0 .. (size + align - 1) :
                  read_bytes(r.mem.alloc_map, Pointer(id, i), 1).err = "ReadUndefBytes"
            /\ \A k \in DOMAIN alloc_map : r.mem.alloc_map[k] = alloc_map[k]

\* An allocate with size > 0 and align > 0 has just returned its fresh, wholly
\* undefined allocation.
C1_Witness ==
    /\ last.op = "allocate" /\ last.err = "Ok"
    /\ last.ret.alloc_id # ZST_ALLOC_ID
    /\ last.ret.offset > 0
    /\ last.ret.alloc_id \in DOMAIN alloc_map
    /\ AllUndefined(alloc_map[last.ret.alloc_id])
    /\ Len(alloc_map[last.ret.alloc_id].bytes) > last.ret.offset

\* C2: in every reachable state allocate(0, a) returns the canonical pointer
\* (0, 0) for every a and leaves every field of the memory as it was, and
\* deallocate of that pointer returns Ok and leaves every field as it was.
C2_ZstIdentity ==
    /\ \A a \in Aligns :
          LET r == allocate(Mem, 0, a) IN
          /\ r.err = "Ok" /\ r.ret = Pointer(ZST_ALLOC_ID, 0)
          /\ r.mem = Mem /\ ~r.wrap /\ ~r.panic
    /\ LET d == deallocate(Mem, Pointer(ZST_ALLOC_ID, 0)) IN
          d.err = "Ok" /\ d.mem = Mem /\ ~d.wrap /\ ~d.panic
    /\ ZST_ALLOC_ID \in DOMAIN alloc_map
    /\ alloc_map[ZST_ALLOC_ID].bytes = <<>>

\* A deallocate has returned Ok although nothing was ever freed, while byte
\* allocations are alive: it was a deallocate of a ZST pointer.
C2_Witness ==
    /\ last.op = "deallocate" /\ last.err = "Ok"
    /\ freed = {}
    /\ Live(alloc_map) # {}
    /\ memory_usage > 0

\* allocate fails with OutOfMemory exactly when memory_usage plus bytes exceeds
\* memory_size, and a failing allocate leaves the memory unchanged.
OutOfMemoryExactFor(size, align, bytes) ==
    LET r == allocate(Mem, size, align) IN
    /\ (r.err = "OutOfMemory") <=> (memory_usage + bytes > memory_size)
    /\ r.err = "OutOfMemory" => r.mem = Mem

\* C3 (as claimed): allocate(size, align) with size > 0 fails with OutOfMemory
\* exactly when memory_usage plus the bytes of the new allocation exceeds
\* memory_size, and a failing allocate leaves the memory unchanged; the bytes
\* of the new allocation being read either as the size + align bytes of its
\* buffer or as the size bytes requested.
C3_OutOfMemoryExact ==
    \/ \A size \in Sizes \ {0}, align \in Aligns :
          OutOfMemoryExactFor(size, align, size + align)
    \/ \A size \in Sizes \ {0}, align \in Aligns :
          OutOfMemoryExactFor(size, align, size)

\* C4 (as claimed): memory_usage never exceeds memory_size, and no operation on
\* the usage counter or on memory_size - memory_usage overflows.
C4_MemoryCap ==
    /\ memory_usage <= memory_size
    /\ ~wrapped
    /\ ~panicked

\* C5 (as claimed): allocate(size, align) followed by deallocate of the returned
\* pointer restores memory_usage to its value before the allocate.
C5_DeallocateRestoresUsage ==
    \A size \in Sizes \ {0}, align \in Aligns :
        LET a == allocate(Mem, size, align) IN
        (a.err = "Ok" /\ ~a.wrap) =>
            LET d == deallocate(a.mem, a.ret) IN
            /\ d.err = "Ok"
            /\ ~d.wrap
            /\ d.mem.memory_usage = memory_usage

\* Every access through the pointer p fails with DanglingPointerDeref, an
\* access that goes to the allocation map before anything else.
DanglingByteAccess(p) ==
    /\ \A size \in Sizes : read_bytes(alloc_map, p, size).err = "DanglingPointerDeref"
    /\ read_ptr(alloc_map, p).err = "DanglingPointerDeref"
    /\ \A src \in ByteStrings :
          LET w == write_bytes(alloc_map, p, src) IN
          w.err = "DanglingPointerDeref" /\ w.am = alloc_map
    /\ \A count \in Sizes :
          LET w == write_repeat(alloc_map, p, 1, count) IN
          w.err = "DanglingPointerDeref" /\ w.am = alloc_map
    /\ \A new_size \in Sizes, align \in Aligns :
          LET r == reallocate(Mem, p, new_size, align) IN
          r.err = "DanglingPointerDeref" /\ r.mem = Mem
    /\ \A q \in Pointers, size \in Sizes :
          LET c == copy(alloc_map, p, q, size) IN
          c.err = "DanglingPointerDeref" /\ c.am = alloc_map

\* The error of a typed access of size bytes through the pointer p of a dead id.
DeadTypedError(p, size) ==
    IF check_int_align(p, size).err = "Ok"
    THEN "DanglingPointerDeref"
    ELSE "AlignmentCheckFailed"

\* The error of copy's checks of its source range.
CopySourceError(src, size) ==
    IF check_relocation_edges(alloc_map, src, size) # "Ok"
    THEN check_relocation_edges(alloc_map, src, size)
    ELSE get_bytes_unchecked(alloc_map, src, size)

\* No later allocate or create_fn_ptr returns a freed id, and a freed id is
\* neither a byte allocation nor a function.
FreedIdsStayDead ==
    /\ freed \cap ((DOMAIN alloc_map) \cup (DOMAIN functions)) = {}
    /\ \A size \in Sizes, align \in Aligns :
          allocate(Mem, size, align).ret.alloc_id \notin freed
    /\ \A def \in Defs : create_fn_ptr(Mem, def).ret.alloc_id \notin freed

\* C6 (as claimed): once an id has been deallocated, no later allocate or
\* create_fn_ptr returns it, and every read, write, copy or reallocate through
\* a pointer carrying it fails with DanglingPointerDeref.
C6_DeadIdAlwaysDangling ==
    /\ FreedIdsStayDead
    /\ \A id \in freed, off \in Offsets :
          LET p == Pointer(id, off) IN
          /\ DanglingByteAccess(p)
          /\ \A size \in IntSizes :
                /\ read_uint(alloc_map, p, size).err = "DanglingPointerDeref"
                /\ write_uint(alloc_map, p, 1, size).err = "DanglingPointerDeref"
          /\ \A v \in PointerValues :
                write_ptr(alloc_map, p, v).err = "DanglingPointerDeref"
          /\ \A q \in Pointers, size \in Sizes :
                copy(alloc_map, q, p, size).err = "DanglingPointerDeref"

\* C6 (amended): once an id has been deallocated, no later allocate or
\* create_fn_ptr returns it; read_bytes, read_ptr, write_bytes, write_repeat,
\* reallocate and a copy from a pointer carrying it fail with
\* DanglingPointerDeref; a typed integer access or write_ptr through it fails
\* with AlignmentCheckFailed when the pointer is misaligned for the access and
\* with DanglingPointerDeref otherwise; a copy to it fails with the error of
\* the source range when the source checks fail and with DanglingPointerDeref
\* otherwise. None of these calls changes the memory.
C6_DeadIdNeverAccessible ==
    /\ FreedIdsStayDead
    /\ \A id \in freed, off \in Offsets :
          LET p == Pointer(id, off) IN
          /\ DanglingByteAccess(p)
          /\ \A size \in IntSizes :
                /\ read_uint(alloc_map, p, size).err = DeadTypedError(p, size)
                /\ LET w == write_uint(alloc_map, p, 1, size) IN
                      w.err = DeadTypedError(p, size) /\ w.am = alloc_map
          /\ \A v \in PointerValues :
                LET w == write_ptr(alloc_map, p, v) IN
                w.err = DeadTypedError(p, PointerSize) /\ w.am = alloc_map
          /\ \A q \in Pointers, size \in Sizes :
                LET c == copy(alloc_map, q, p, size) IN
                /\ c.err = IF CopySourceError(q, size) # "Ok"
                           THEN CopySourceError(q, size)
                           ELSE "DanglingPointerDeref"
                /\ c.am = alloc_map

\* After a deallocate, an allocate has returned a new byte allocation.
C6_Witness ==
    /\ freed # {}
    /\ last.op = "allocate" /\ last.err = "Ok"
    /\ last.ret.alloc_id \in Live(alloc_map)
    /\ last.ret.alloc_id \notin freed

\* C7 (as claimed): for an allocation that has been deallocated, deallocate of
\* its base pointer (some offset) returns Ok and leaves the memory unchanged.
C7_DoubleFreeReturnsOk ==
    \A id \in freed :
        \E off \in Offsets :
            LET d == deallocate(Mem, Pointer(id, off)) IN
            d.err = "Ok" /\ d.mem = Mem

\* C8 (as claimed): reallocate and deallocate of a pointer into a live
\* allocation whose offset differs from the allocation's align fail with an
\* error and leave the memory unchanged.
C8_NonBasePointerFails ==
    \A p \in Pointers :
        (p.alloc_id \in DOMAIN alloc_map /\ p.offset # alloc_map[p.alloc_id].align) =>
            /\ \A new_size \in Sizes, align \in Aligns :
                  LET r == reallocate(Mem, p, new_size, align) IN
                  r.err # "Ok" /\ r.mem = Mem
            /\ LET d == deallocate(Mem, p) IN d.err # "Ok" /\ d.mem = Mem

\* C8 (amended): reallocate of a pointer into a live allocation whose offset
\* differs from the allocation's align fails with Unimplemented and leaves the
\* memory unchanged; so does deallocate, unless the pointer carries the ZST id
\* 0: deallocate of a pointer with id 0 returns Ok whatever its offset, and
\* leaves the memory unchanged.
C8_NonBasePointerFailsButZst ==
    \A p \in Pointers :
        (p.alloc_id \in DOMAIN alloc_map /\ p.offset # alloc_map[p.alloc_id].align) =>
            /\ \A new_size \in Sizes, align \in Aligns :
                  LET r == reallocate(Mem, p, new_size, align) IN
                  r.err = "Unimplemented" /\ r.mem = Mem /\ ~r.wrap
            /\ LET d == deallocate(Mem, p) IN
                  /\ d.err = IF p.alloc_id = ZST_ALLOC_ID THEN "Ok" ELSE "Unimplemented"
                  /\ d.mem = Mem /\ ~d.wrap

\* A deallocate has just failed on a pointer that is not the base pointer of
\* the allocation it points into.
C8_Witness ==
    /\ last.op = "deallocate" /\ last.err = "Unimplemented"
    /\ Live(alloc_map) # {}
    /\ \E id \in Live(alloc_map) : alloc_map[id].align > 0

\* The base pointers of the live allocations.
BasePointers ==
    {Pointer(id, alloc_map[id].align) : id \in Live(alloc_map)}

\* C9 (as claimed): reallocate that grows an allocation keeps its id, its
\* bytes, their init bits and its relocations; a read of any byte added by the
\* growth fails with ReadUndefBytes, and every byte that was readable before
\* is read with its old value.
C9_GrowKeepsContentNewBytesUndefined ==
    \A p \in BasePointers, new_size \in Sizes, align \in Aligns :
        LET old == alloc_map[p.alloc_id]
            size == Len(old.bytes)
            r == reallocate(Mem, p, new_size, align)
            new == r.mem.alloc_map[p.alloc_id]
        IN
        (new_size + align > size) =>
            /\ r.err = "Ok" /\ r.ret.alloc_id = p.alloc_id
            /\ Len(new.bytes) = new_size + align
            /\ SubSeq(new.bytes, 1, size) = old.bytes
            /\ new.relocations = old.relocations
            /\ \A i \in 0 .. (size - 1) :
                  /\ i < old.undef_mask.len =>
                        UndefMask_get(new.undef_mask, i) = UndefMask_get(old.undef_mask, i)
                  /\ read_bytes(alloc_map, Pointer(p.alloc_id, i), 1).err = "Ok" =>
                        read_bytes(r.mem.alloc_map, Pointer(p.alloc_id, i), 1)
                            = read_bytes(alloc_map, Pointer(p.alloc_id, i), 1)
            /\ \A i \in size .. (new_size + align - 1) :
                  read_bytes(r.mem.alloc_map, Pointer(p.alloc_id, i), 1).err = "ReadUndefBytes"

\* C10 (as claimed): reallocate that shrinks an allocation removes every
\* relocation any of whose pointer_size bytes was dropped and leaves the
\* retained bytes of such a relocation undefined; and in every reachable state
\* the pointer_size bytes of every relocation lie inside the byte buffer.
C10_ShrinkClipsRelocations ==
    /\ \A id \in DOMAIN alloc_map :
          \A k \in DOMAIN alloc_map[id].relocations :
              k + PointerSize <= Len(alloc_map[id].bytes)
    /\ \A p \in BasePointers, new_size \in Sizes, align \in Aligns :
          LET old == alloc_map[p.alloc_id]
              r == reallocate(Mem, p, new_size, align)
              new == r.mem.alloc_map[p.alloc_id]
          IN
          (new_size + align < Len(old.bytes)) =>
              /\ r.err = "Ok"
              /\ \A k \in DOMAIN old.relocations :
                    (k + PointerSize > new_size + align) =>
                        /\ k \notin DOMAIN new.relocations
                        /\ \A i \in k .. (new_size + align - 1) :
                              ~is_range_defined(new.undef_mask, i, i + 1)

\* The relocation at key k covers a byte of the range [start, end).
Overlaps(k, start, end) ==
    \E i \in start .. (end - 1) : k <= i /\ i < k + PointerSize

\* The relocation at key k has a byte inside the range [start, end) and a byte
\* outside it.
PartlyInside(k, start, end) ==
    Overlaps(k, start, end) /\ ~(start <= k /\ k + PointerSize <= end)

\* The write of n bytes at ptr that took the allocation map am to w.am left
\* the range defined, with no relocation in it but those of kept (the one a
\* write_ptr inserts), and removed every relocation it partly overlapped,
\* leaving that relocation's bytes outside the range undefined.
WriteDiscipline(am, w, ptr, n, kept) ==
    LET old == am[ptr.alloc_id]
        new == w.am[ptr.alloc_id]
        start == ptr.offset
        end == ptr.offset + n
    IN
    /\ n > 0 => is_range_defined(new.undef_mask, start, end)
    /\ \A k \in DOMAIN new.relocations : Overlaps(k, start, end) => k \in kept
    /\ \A k \in DOMAIN old.relocations :
          PartlyInside(k, start, end) =>
              /\ k \notin DOMAIN new.relocations
              /\ \A i \in k .. (k + PointerSize - 1) :
                    (i < start \/ i >= end) =>
                        ~is_range_defined(new.undef_mask, i, i + 1)

\* C11: in every reachable state, every write (write_bytes, write_repeat,
\* write_int, write_uint, write_bool, write_ptr) that succeeds leaves its range
\* fully defined and free of relocations, except the one write_ptr inserts at
\* its own offset for the id it stores; every relocation the range partly
\* overlapped is removed and its bytes outside the range are undefined.
C11_InitMaskDiscipline ==
    \A p \in Pointers :
        /\ \A src \in ByteStrings :
              LET w == write_bytes(alloc_map, p, src) IN
              w.err = "Ok" => WriteDiscipline(alloc_map, w, p, Len(src), {})
        /\ \A count \in Sizes \cup {PointerSize} :
              LET w == write_repeat(alloc_map, p, 1, count) IN
              w.err = "Ok" => WriteDiscipline(alloc_map, w, p, count, {})
        /\ \A size \in IntSizes :
              /\ \A n \in UintValues :
                    LET w == write_uint(alloc_map, p, n, size) IN
                    w.err = "Ok" => WriteDiscipline(alloc_map, w, p, size, {})
              /\ \A n \in IntValues :
                    LET w == write_int(alloc_map, p, n, size) IN
                    w.err = "Ok" => WriteDiscipline(alloc_map, w, p, size, {})
        /\ \A b \in BOOLEAN :
              LET w == write_bool(alloc_map, p, b) IN
              w.err = "Ok" => WriteDiscipline(alloc_map, w, p, 1, {})
        /\ \A v \in PointerValues :
              LET w == write_ptr(alloc_map, p, v) IN
              w.err = "Ok" =>
                  /\ WriteDiscipline(alloc_map, w, p, PointerSize, {p.offset})
                  /\ p.offset \in DOMAIN w.am[p.alloc_id].relocations
                  /\ w.am[p.alloc_id].relocations[p.offset] = v.alloc_id

\* A write has succeeded on an allocation whose byte 0 once held a pointer's
\* offset 1 and is undefined again: the write at byte 1 clipped the relocation.
C11_Witness ==
    /\ last.op \in {"write_uint", "write_bytes"} /\ last.err = "Ok"
    /\ \E id \in Live(alloc_map) :
          LET alloc == alloc_map[id] IN
          /\ Len(alloc.bytes) >= 2
          /\ alloc.bytes[1] = 1
          /\ ~UndefMask_get(alloc.undef_mask, 0)
          /\ UndefMask_get(alloc.undef_mask, 1)
          /\ DOMAIN alloc.relocations = {}

\* The pointers into byte allocations of alloc_map whose range of size bytes
\* lies inside the byte buffer.
InBounds(size) ==
    {p \in Pointers : /\ p.alloc_id \in DOMAIN alloc_map
                      /\ p.offset + size <= Len(alloc_map[p.alloc_id].bytes)}

\* Some relocation of p's allocation covers a byte of the size bytes at p.
RelocationOverlaps(p, size) ==
    \E k \in DOMAIN alloc_map[p.alloc_id].relocations :
        Overlaps(k, p.offset, p.offset + size)

\* Some byte of the size bytes at p is undefined.
SomeByteUndefined(p, size) ==
    \E i \in p.offset .. (p.offset + size - 1) :
        ~UndefMask_get(alloc_map[p.alloc_id].undef_mask, i)

\* p points strictly inside the bytes of a relocation.
InsideRelocation(p) ==
    \E k \in DOMAIN alloc_map[p.alloc_id].relocations :
        k < p.offset /\ p.offset < k + PointerSize

\* C12 (as claimed): read_bytes on an in-bounds range succeeds with the stored
\* bytes iff every byte of the range is defined and no relocation overlaps the
\* range, fails with ReadPointerAsBytes if a relocation overlaps it, and with
\* ReadUndefBytes if a byte is undefined (and no relocation overlaps it).
C12_ReadBytesExact ==
    \A size \in AccessSizes : \A p \in InBounds(size) :
        LET r == read_bytes(alloc_map, p, size) IN
        /\ (r.err = "Ok") <=> (~RelocationOverlaps(p, size) /\ ~SomeByteUndefined(p, size))
        /\ r.err = "Ok" => r.val = SubSeq(alloc_map[p.alloc_id].bytes,
                                          p.offset + 1, p.offset + size)
        /\ RelocationOverlaps(p, size) => r.err = "ReadPointerAsBytes"
        /\ (SomeByteUndefined(p, size) /\ ~RelocationOverlaps(p, size)) =>
              r.err = "ReadUndefBytes"

\* C12 (amended): read_bytes on a non-empty in-bounds range fails with
\* ReadPointerAsBytes if a relocation overlaps the range, otherwise with
\* ReadUndefBytes if a byte of it is undefined, and otherwise succeeds with
\* the stored bytes; on an empty in-bounds range it fails with
\* ReadPointerAsBytes if the pointer lies strictly inside a relocation and
\* succeeds with no bytes otherwise.
C12_ReadBytesNonEmptyExact ==
    \A size \in AccessSizes : \A p \in InBounds(size) :
        LET r == read_bytes(alloc_map, p, size) IN
        IF size = 0
        THEN /\ r.err = IF InsideRelocation(p) THEN "ReadPointerAsBytes" ELSE "Ok"
             /\ r.val = <<>>
        ELSE /\ r.err = IF RelocationOverlaps(p, size) THEN "ReadPointerAsBytes"
                        ELSE IF SomeByteUndefined(p, size) THEN "ReadUndefBytes"
                        ELSE "Ok"
             /\ r.err = "Ok" => r.val = SubSeq(alloc_map[p.alloc_id].bytes,
                                               p.offset + 1, p.offset + size)

\* A read_bytes has failed on a relocation, in an allocation that holds one
\* and whose bytes are all defined.
C12_Witness ==
    /\ last.op = "read_bytes" /\ last.err = "ReadPointerAsBytes"
    /\ \E id \in Live(alloc_map) :
          /\ DOMAIN alloc_map[id].relocations # {}
          /\ is_range_defined(alloc_map[id].undef_mask, 0, Len(alloc_map[id].bytes))

\* The pointer-sized slots: in bounds and aligned for a pointer-sized integer.
PointerSlots ==
    {p \in InBounds(PointerSize) : check_int_align(p, PointerSize).err = "Ok"}

\* C13: in every reachable state, for every in-bounds pointer-aligned slot p,
\* write_ptr(p, (A, off)) succeeds and read_ptr(p) then returns exactly
\* (A, off), for every id A and offset off; and after a write_uint of a
\* pointer-sized integer to the slot, read_ptr(p) fails with ReadBytesAsPointer.
C13_PointerRoundTrip ==
    \A p \in PointerSlots :
        /\ \A A \in Ids, off \in Offsets :
              LET w == write_ptr(alloc_map, p, Pointer(A, off)) IN
              /\ w.err = "Ok"
              /\ read_ptr(w.am, p) = [err |-> "Ok", ret |-> Pointer(A, off)]
        /\ \A n \in UintValues \cup Offsets :
              LET w == write_uint(alloc_map, p, n, PointerSize) IN
              /\ w.err = "Ok"
              /\ read_ptr(w.am, p).err = "ReadBytesAsPointer"

\* A read_ptr has returned a pointer with a non-zero offset into a non-ZST
\* allocation, which a write_ptr stored.
C13_Witness ==
    /\ last.op = "read_ptr" /\ last.err = "Ok"
    /\ last.ret.alloc_id # ZST_ALLOC_ID /\ last.ret.offset = 1

\* The size bytes at dest of the allocation map am2 hold the bytes and init
\* bits that the size bytes at src held in am.
ImageOfBytes(am, am2, src, dest, size) ==
    \A i \in 0 .. (size - 1) :
        /\ am2[dest.alloc_id].bytes[dest.offset + i + 1]
              = am[src.alloc_id].bytes[src.offset + i + 1]
        /\ UndefMask_get(am2[dest.alloc_id].undef_mask, dest.offset + i)
              = UndefMask_get(am[src.alloc_id].undef_mask, src.offset + i)

\* dest holds in am2 a relocation at dest.offset + k to X iff src held in am a
\* relocation at src.offset + k to X, for every k of the range.
ImageOfRelocations(am, am2, src, dest, size) ==
    \A k \in 0 .. (size - 1) :
        LET old == am[src.alloc_id].relocations
            new == am2[dest.alloc_id].relocations
        IN /\ (dest.offset + k \in DOMAIN new) <=> (src.offset + k \in DOMAIN old)
           /\ (src.offset + k \in DOMAIN old) =>
                 new[dest.offset + k] = old[src.offset + k]

\* An edge of the size bytes at src lies strictly inside a relocation.
EdgeInsideRelocation(src, size) ==
    \E k \in DOMAIN alloc_map[src.alloc_id].relocations :
        \/ k < src.offset /\ src.offset < k + PointerSize
        \/ k < src.offset + size /\ src.offset + size < k + PointerSize

\* C14: in every reachable state, copy(src, dest, size) between in-bounds
\* ranges of two different allocations succeeds unless an edge of the source
\* range cuts a relocation, and when it succeeds the destination range holds
\* the source range's bytes, init bits and relocations (at the same distance
\* from the start, to the same ids), and the source allocation is unchanged.
C14_CopyExactImage ==
    \A size \in AccessSizes :
        \A src \in LiveRanges(size), dest \in LiveRanges(size) :
            src.alloc_id # dest.alloc_id =>
                LET c == copy(alloc_map, src, dest, size) IN
                /\ ~EdgeInsideRelocation(src, size) => c.err = "Ok"
                /\ c.err = "Ok" =>
                      /\ ImageOfBytes(alloc_map, c.am, src, dest, size)
                      /\ ImageOfRelocations(alloc_map, c.am, src, dest, size)
                      /\ c.am[src.alloc_id] = alloc_map[src.alloc_id]

\* A copy has succeeded and an allocation holds at offset 1 the relocation and
\* the bytes that another allocation holds at offset 0, next to an undefined
\* byte: a pointer slot copied from one allocation to the other.
C14_Witness ==
    /\ last.op = "copy" /\ last.err = "Ok"
    /\ \E a \in Live(alloc_map), b \in Live(alloc_map) :
          /\ a # b
          /\ 0 \in DOMAIN alloc_map[a].relocations
          /\ 1 \in DOMAIN alloc_map[b].relocations
          /\ alloc_map[b].relocations[1] = alloc_map[a].relocations[0]
          /\ SubSeq(alloc_map[b].bytes, 2, 3) = SubSeq(alloc_map[a].bytes, 1, 2)
          /\ ~UndefMask_get(alloc_map[b].undef_mask, 0)

\* C15 (as claimed): a successful copy(src, dest, n) between non-empty
\* in-bounds ranges of the same allocation, overlapping or not, leaves in the
\* destination range the bytes and the init bits that the source range held
\* before the copy.
C15_CopyWithOverlap ==
    \A size \in AccessSizes \ {0} :
        \A src \in LiveRanges(size), dest \in LiveRanges(size) :
            src.alloc_id = dest.alloc_id =>
                LET c == copy(alloc_map, src, dest, size) IN
                c.err = "Ok" => ImageOfBytes(alloc_map, c.am, src, dest, size)

\* C16: in every reachable state, copy(src, dest, size) fails with
\* ReadPointerAsBytes and changes nothing whenever a relocation has some but
\* not all of its bytes inside the source range, and it fails with
\* ReadPointerAsBytes only if an edge of the source range lies strictly inside
\* a relocation: a relocation entirely inside the range never causes it.
C16_CopyEdgeStraddle ==
    \A size \in AccessSizes, src \in LivePointers, dest \in Pointers :
        LET c == copy(alloc_map, src, dest, size)
            rel == DOMAIN alloc_map[src.alloc_id].relocations
        IN
        /\ (\E k \in rel : PartlyInside(k, src.offset, src.offset + size)) =>
              c.err = "ReadPointerAsBytes" /\ c.am = alloc_map
        /\ c.err = "ReadPointerAsBytes" =>
              EdgeInsideRelocation(src, size) /\ c.am = alloc_map
        /\ (\A k \in rel : src.offset <= k /\ k + PointerSize <= src.offset + size) =>
              c.err # "ReadPointerAsBytes"

\* A copy has failed on a relocation cut by an edge of its source range.
C16_Witness ==
    /\ last.op = "copy" /\ last.err = "ReadPointerAsBytes"
    /\ \E id \in Live(alloc_map) : DOMAIN alloc_map[id].relocations # {}

\* The largest power of two that divides n (n > 0).
LargestPow2Divisor(n) ==
    CHOOSE d \in 1 .. n :
        /\ \E k \in 0 .. n : d = Pow2(k)
        /\ n % d = 0
        /\ \A e \in 1 .. n : ((\E k \in 0 .. n : e = Pow2(k)) /\ n % e = 0) => e <= d

\* The alignment check of a typed access of p failed as it must for a pointer
\* whose offset is no multiple of align.
FailsAlignment(a, p, align) ==
    /\ a.err = "AlignmentCheckFailed"
    /\ a.required = align
    /\ a.has = LargestPow2Divisor(p.offset)

\* The layout's alignment of an integer of size bytes.
IntAlign(size) ==
    IF size = 1 THEN I8Align ELSE IF size = 2 THEN I16Align
    ELSE IF size = 4 THEN I32Align ELSE I64Align

\* C17: in every reachable state, a typed integer, bool or float read or
\* write through a pointer whose offset is no multiple of the layout's
\* alignment for the type fails with AlignmentCheckFailed{required, has},
\* required being that alignment and has the largest power of two dividing the
\* offset, whatever the pointer's allocation; a failing write leaves the
\* memory unchanged.
C17_AlignmentFirst ==
    \A p \in Pointers :
        /\ \A size \in {1, 2, 4, 8} :
              p.offset % IntAlign(size) # 0 =>
                  /\ FailsAlignment(check_int_align(p, size), p, IntAlign(size))
                  /\ read_uint(alloc_map, p, size).err = "AlignmentCheckFailed"
                  /\ read_int(alloc_map, p, size).err = "AlignmentCheckFailed"
                  /\ \A n \in UintValues :
                        write_uint(alloc_map, p, n, size)
                            = [err |-> "AlignmentCheckFailed", am |-> alloc_map]
                  /\ \A n \in IntValues :
                        write_int(alloc_map, p, n, size)
                            = [err |-> "AlignmentCheckFailed", am |-> alloc_map]
        /\ p.offset % I1Align # 0 =>
              /\ FailsAlignment(check_align(p, I1Align), p, I1Align)
              /\ read_bool(alloc_map, p).err = "AlignmentCheckFailed"
              /\ \A b \in BOOLEAN :
                    write_bool(alloc_map, p, b)
                        = [err |-> "AlignmentCheckFailed", am |-> alloc_map]
        /\ \A size \in FloatSizes :
              LET align == IF size = 4 THEN F32Align ELSE F64Align IN
              p.offset % align # 0 =>
                  /\ FailsAlignment(check_align(p, align), p, align)
                  /\ read_float(alloc_map, p, size).err = "AlignmentCheckFailed"
                  /\ \A bits \in FloatBits :
                        write_float(alloc_map, p, bits, size)
                            = [err |-> "AlignmentCheckFailed", am |-> alloc_map]

\* A write_uint through a misaligned pointer has failed, in a memory that
\* holds a written allocation.
C17_Witness ==
    /\ last.op = "write_uint" /\ last.err = "AlignmentCheckFailed"
    /\ \E id \in Live(alloc_map) :
          is_range_defined(alloc_map[id].undef_mask, 0, Len(alloc_map[id].bytes))

\* The pointers into the byte allocations made by allocate whose range of size
\* bytes extends past the end of the byte buffer.
OutOfBounds(size) ==
    {p \in Pointers : /\ p.alloc_id \in Live(alloc_map)
                      /\ p.offset + size > Len(alloc_map[p.alloc_id].bytes)}

\* C18 (as claimed): every byte-level access whose range extends past the end
\* of a live allocation's byte buffer fails with PointerOutOfBounds (a typed
\* access being made through a pointer aligned for its type).
C18_OutOfBoundsFails ==
    /\ \A size \in AccessSizes : \A p \in OutOfBounds(size) :
          /\ read_bytes(alloc_map, p, size).err = "PointerOutOfBounds"
          /\ write_repeat(alloc_map, p, 1, size).err = "PointerOutOfBounds"
          /\ \A q \in Pointers :
                /\ copy(alloc_map, p, q, size).err = "PointerOutOfBounds"
                /\ (q \in InBounds(size) /\ ~EdgeInsideRelocation(q, size)) =>
                      copy(alloc_map, q, p, size).err = "PointerOutOfBounds"
    /\ \A src \in ByteStrings : \A p \in OutOfBounds(Len(src)) :
          write_bytes(alloc_map, p, src).err = "PointerOutOfBounds"
    /\ \A size \in IntSizes : \A p \in OutOfBounds(size) :
          check_int_align(p, size).err = "Ok" =>
              /\ read_uint(alloc_map, p, size).err = "PointerOutOfBounds"
              /\ read_int(alloc_map, p, size).err = "PointerOutOfBounds"
              /\ \A n \in UintValues :
                    write_uint(alloc_map, p, n, size).err = "PointerOutOfBounds"
              /\ \A n \in IntValues :
                    write_int(alloc_map, p, n, size).err = "PointerOutOfBounds"
    /\ \A p \in OutOfBounds(PointerSize) :
          check_int_align(p, PointerSize).err = "Ok" =>
              /\ read_ptr(alloc_map, p).err = "PointerOutOfBounds"
              /\ \A v \in PointerValues :
                    write_ptr(alloc_map, p, v).err = "PointerOutOfBounds"

\* C19: create_fn_ptr is memoized through the two maps. functions and
\* function_alloc_cache are inverse bijections of each other; creating a
\* pointer for a definition that is already cached returns the cached id at
\* offset 0 and changes nothing, so the same definition twice gives the same
\* pointer; two different definitions get different ids; and get_fn of the id
\* of a created pointer returns the definition.
C19_FnPtrMemoized ==
    /\ \A i \in DOMAIN functions :
          /\ functions[i] \in DOMAIN function_alloc_cache
          /\ function_alloc_cache[functions[i]] = i
    /\ \A d \in DOMAIN function_alloc_cache :
          /\ function_alloc_cache[d] \in DOMAIN functions
          /\ functions[function_alloc_cache[d]] = d
          /\ get_fn(function_alloc_cache[d]) = [err |-> "Ok", def |-> d]
          /\ create_fn_ptr(Mem, d) =
                Return(Mem, "Ok", Pointer(function_alloc_cache[d], 0))
    /\ \A d \in Defs :
          LET first == create_fn_ptr(Mem, d)
              second == create_fn_ptr(first.mem, d)
          IN /\ first.err = "Ok"
             /\ first.ret.offset = 0
             /\ first.mem.functions[first.ret.alloc_id] = d
             /\ first.mem.function_alloc_cache[d] = first.ret.alloc_id
             /\ second.ret = first.ret
             /\ second.mem = first.mem
             /\ \A e \in Defs \ {d} :
                   create_fn_ptr(first.mem, e).ret.alloc_id # first.ret.alloc_id
    /\ last.op = "create_fn_ptr" =>
          /\ last.err = "Ok"
          /\ last.ret.offset = 0
          /\ get_fn(last.ret.alloc_id).err = "Ok"
          /\ function_alloc_cache[get_fn(last.ret.alloc_id).def] = last.ret.alloc_id

\* Two definitions have pointers, and the last create_fn_ptr was answered from
\* the cache: it returned an id older than the newest one.
C19_Witness ==
    /\ last.op = "create_fn_ptr"
    /\ Cardinality(DOMAIN functions) = 2
    /\ last.ret.alloc_id \in DOMAIN functions
    /\ last.ret.alloc_id < next_id - 1

\* The ids that have been issued and are neither a byte allocation nor a
\* function any more, and the ids not issued yet.
NeitherIds == Ids \ ((DOMAIN alloc_map) \cup (DOMAIN functions))

\* C20: byte allocations and function allocations partition the id space. No
\* id is both in alloc_map and in functions; get_fn on the id of a live byte
\* allocation fails with ExecuteMemory and on an id that is neither fails with
\* InvalidFunctionPointer; the lookup of a byte access (get, get_mut) through
\* a function id fails with DerefFunctionPointer, and so do the byte reads and
\* writes and the deallocate made through a function pointer, which leave the
\* memory unchanged.
C20_IdSpacePartition ==
    /\ (DOMAIN alloc_map) \cap (DOMAIN functions) = {}
    /\ \A id \in DOMAIN alloc_map : get_fn(id).err = "ExecuteMemory"
    /\ \A id \in NeitherIds : get_fn(id).err = "InvalidFunctionPointer"
    /\ \A id \in DOMAIN functions :
          LET p == Pointer(id, 0) IN
          /\ get_fn(id).err = "Ok"
          /\ get(alloc_map, id) = "DerefFunctionPointer"
          /\ \A size \in AccessSizes :
                /\ read_bytes(alloc_map, p, size).err = "DerefFunctionPointer"
                /\ write_repeat(alloc_map, p, 1, size).err = "DerefFunctionPointer"
                /\ write_repeat(alloc_map, p, 1, size).am = alloc_map
          /\ read_ptr(alloc_map, p).err = "DerefFunctionPointer"
          /\ \A size \in IntSizes :
                read_uint(alloc_map, p, size).err = "DerefFunctionPointer"
          /\ deallocate(Mem, p).err = "DerefFunctionPointer"
          /\ deallocate(Mem, p).mem = Mem

\* A deallocate through a function pointer has just failed with
\* DerefFunctionPointer while a byte allocation is live and a freed id is
\* neither a byte allocation nor a function.
C20_Witness ==
    /\ last.op = "deallocate" /\ last.err = "DerefFunctionPointer"
    /\ Live(alloc_map) # {}
    /\ DOMAIN functions # {}
    /\ freed \cap NeitherIds # {}

\* ------------------------------------------------------- claims C21 .. C30

\* C21: step returns Ok(false) exactly when the frame stack is empty, and such a
\* call changes nothing, however often it is repeated; a step on a non-empty
\* stack that meets no error returns Ok(true).
C21_StepOnEmptyStack ==
    \A r \in {step(Ecx)} :
        /\ (r.err = "Ok" /\ ~r.val) <=> (stack = <<>>)
        /\ stack = <<>> => (r.ecx = Ecx /\ step(r.ecx) = r)
        /\ (stack # <<>> /\ r.err = "Ok") => r.val
        /\ (last.op = "step" /\ last.err = "Ok(false)") =>
               (stack = <<>> /\ phase = "returned")

\* A program that cached constants has run to its end and the stepper said so.
C21_Witness ==
    /\ last.op = "step" /\ last.err = "Ok(false)"
    /\ stack = <<>>
    /\ DOMAIN statics # {}
    /\ steps > 1

\* C22: a program whose stack empties after m <= step_limit steps is seen to end:
\* the loop of eval_main still has an iteration left in which step returns
\* Ok(false), eval_main returns normally, and ExecutionTimeLimitReached is only
\* reported (by a reporter that needs a top frame) while frames remain.
C22_StepLiveness ==
    /\ (phase = "running" /\ stack = <<>> /\ steps <= step_limit) =>
           steps < step_limit
    /\ (last.op = "report" /\ last.err = "ExecutionTimeLimitReached") =>
           (stack # <<>> /\ ~panicked /\ phase = "reported")

\* The constants a statement or a terminator of the function def_id names.
LvalueRefs(lvalue) ==
    IF lvalue.tag = "Static" THEN {ConstantId(lvalue.def_id, Global)} ELSE {}

OperandRefs(operand, def_id) ==
    CASE operand.tag \in {"Consume", "Ref"} -> LvalueRefs(operand.lvalue)
      [] operand.tag = "Item" -> {ConstantId(operand.def_id, Global)}
      [] operand.tag = "Promoted" -> {ConstantId(def_id, PromotedKind(operand.index))}
      [] OTHER -> {}

StatementRefs(stmt, def_id) ==
    LvalueRefs(stmt.lvalue) \cup OperandRefs(stmt.operand, def_id)

TerminatorRefs(term) ==
    IF term.tag = "Call" THEN LvalueRefs(term.destination) ELSE {}

\* C23: a step that visits a statement or terminator naming constants that are
\* not yet computed pushes one fresh frame for each of them, executes nothing
\* and leaves the visiting frame where it was; a step that visits a statement
\* whose constants are all computed executes it and, on success, advances stmt
\* by exactly one with block and stack depth unchanged; a step that fails does
\* not advance stmt.
C23_ExtractOrExecute ==
    stack # <<>> =>
    \A r \in {step(Ecx)} :
        LET depth == Len(stack)
            top == stack[depth]
            bb == top.mir.basic_blocks[top.block + 1]
            at_stmt == top.stmt < Len(bb.statements)
            missing == (IF at_stmt
                        THEN StatementRefs(bb.statements[top.stmt + 1], top.def_id)
                        ELSE TerminatorRefs(bb.terminator)) \ DOMAIN statics
        IN
        /\ (r.err = "Ok" /\ missing # {}) =>
              /\ Len(r.ecx.stack) = depth + Cardinality(missing)
              /\ SubSeq(r.ecx.stack, 1, depth) = stack
              /\ \A i \in depth + 1 .. Len(r.ecx.stack) :
                    r.ecx.stack[i].block = 0 /\ r.ecx.stack[i].stmt = 0
              /\ \A id \in DOMAIN alloc_map : r.ecx.memory.alloc_map[id] = alloc_map[id]
        /\ (r.err = "Ok" /\ missing = {} /\ at_stmt) =>
              /\ r.ecx.stack = [stack EXCEPT ![depth].stmt = @ + 1]
              /\ r.ecx.memory =
                    eval_assignment(Ecx, bb.statements[top.stmt + 1].lvalue,
                                    bb.statements[top.stmt + 1].operand).ecx.memory
        /\ (r.err # "Ok" /\ ~r.panic) =>
              /\ Len(r.ecx.stack) >= depth
              /\ SubSeq(r.ecx.stack, 1, depth) = stack

\* The third statement of main named a promoted that was not computed: its frame
\* is on top, fresh, and main still stands at that statement, having executed
\* the two before it.
C23_Witness ==
    /\ last.op = "step" /\ last.err = "Ok(true)"
    /\ Len(stack) = 2
    /\ stack[1].def_id = "main" /\ stack[1].stmt = 2
    /\ stack[2].block = 0 /\ stack[2].stmt = 0
    /\ ConstantId("main", PromotedKind(0)) \in DOMAIN statics

\* What the reads of the key k return: the operand Item and the place Static for
\* a global item, the operand Promoted read from a frame of its function.
StaticsReads(k) ==
    IF k.kind = Global
    THEN {eval_operand(Ecx, Item(k.def_id)).ptr,
          eval_lvalue(Ecx, Static(k.def_id)).ptr}
    ELSE {eval_operand([Ecx EXCEPT !.stack = <<[def_id |-> k.def_id]>>],
                       Promoted(k.kind.index)).ptr}

\* C24: an entry of the statics table is never removed or overwritten: after
\* every step each key the table held is still there and every read of it
\* returns the pointer (allocation id and offset) the table held before.
C24_ConstantCaching ==
    [][\A k \in DOMAIN statics :
           /\ k \in DOMAIN statics'
           /\ StaticsReads(k)' = {statics[k]}]_vars

\* main has gone past the statement that names the cached item c a second time,
\* with the items c and d and its promoted all in the table.
C24_Witness ==
    /\ main_def = "main"
    /\ Len(stack) = 1 /\ stack[1].stmt = 3
    /\ Cardinality(DOMAIN statics) = 3
    /\ StaticsReads(ConstantId("c", Global)) = {statics[ConstantId("c", Global)]}

\* The frame that computes the constant k is still on the stack: a frame that
\* returns into the slot of k and was not pushed by a call.
Computing(k) ==
    \E i \in 1 .. Len(stack) :
        /\ stack[i].return_ptr = statics[k]
        /\ stack[i].return_to_block.tag # "Goto"

\* C25: every frame the extractor pushed to compute a constant carries the
\* cleanup Freeze(allocation of its return slot), and once that frame has
\* returned the allocation is read-only: a write to the slot fails.
C25_FreezeOnReturn ==
    /\ \A i \in 1 .. Len(stack) :
          (/\ stack[i].return_to_block.tag # "Goto"
           /\ \E k \in DOMAIN statics : statics[k] = stack[i].return_ptr) =>
              stack[i].return_to_block = Freeze(stack[i].return_ptr.alloc_id)
    /\ \A k \in DOMAIN statics :
          ~Computing(k) =>
              /\ statics[k].alloc_id \in frozen
              /\ write_int(alloc_map, statics[k], 0, U8.size).err # "Ok"

\* The functions whose frames the pushes of the claims below try: without
\* locals, with two one-byte locals, with one.
PushDefs == {"leaf", "main", "call"}

\* One more push, of a frame of def_id, in the current state.
Push(def_id) ==
    push_stack_frame(Ecx, def_id, load_mir(def_id), zst_ptr, StackPopCleanupNone)

\* The bytes the locals of a function take from the memory budget.
RECURSIVE SumSizes(_)
SumSizes(tys) == IF tys = <<>> THEN 0 ELSE Head(tys).size + SumSizes(Tail(tys))

LocalsSize(mir) == SumSizes(mir.arg_decls \o mir.var_decls \o mir.temp_decls)

\* The interpreter can still push: it has not reported an error or aborted.
CanPush == phase \in {"new", "running"}

\* C26 as stated: a push succeeds when it leaves the depth at most stack_limit
\* and fails with StackFrameLimitReached when it would make it stack_limit + 1.
C26_PushLimit ==
    CanPush =>
        \A d \in PushDefs :
            Push(d).err = IF Len(stack) + 1 <= stack_limit
                          THEN "Ok" ELSE "StackFrameLimitReached"

\* C26, amended: a push whose locals do not fit in the remaining memory fails
\* with OutOfMemory and pushes nothing; every other push succeeds when it leaves
\* the depth at most stack_limit and fails with StackFrameLimitReached exactly
\* when it would make the depth stack_limit + 1.
C26_PushLimitOrMemory ==
    CanPush =>
        \A d \in PushDefs :
            \A r \in {Push(d)} :
                /\ Len(stack) <= stack_limit
                /\ r.err = IF LocalsSize(load_mir(d)) > memory_size - memory_usage
                           THEN "OutOfMemory"
                           ELSE IF Len(stack) + 1 <= stack_limit
                           THEN "Ok" ELSE "StackFrameLimitReached"
                /\ r.err = "OutOfMemory" => r.ecx.stack = stack
                /\ r.err = "Ok" => Len(r.ecx.stack) = Len(stack) + 1

\* A recursion was stopped by the push that would have made the depth
\* stack_limit + 1, after stack_limit pushes that succeeded.
C26_Witness ==
    /\ last.op = "step" /\ last.err = "StackFrameLimitReached"
    /\ main_def = "rec"
    /\ stack_limit >= 2
    /\ steps = stack_limit

\* C27: in every reachable state, the one a push that failed with
\* StackFrameLimitReached leaves behind included, the stack holds at most
\* stack_limit frames (the states of a process that aborted are left aside).
C27_FrameCap == phase # "aborted" => Len(stack) <= stack_limit

\* ------------------------------------------------- C28: General round trip

\* The programs whose enum has a General layout, and the aggregates a program
\* assigns.
GeneralMains == {"s5", "pad", "three"}
AggregateStatements(def_id) ==
    {stmt \in AggrStatements(def_id) : stmt.operand.tag = "Aggregate"}

\* The place Field(j) of Downcast(v) of the enum of the program.
FieldPlace(v, j, ty) == Field(Downcast(Var(0), v, EnumTy(main_def)), j, ty)

\* The address at which the assignment stmt of an aggregate writes its operand j.
WriteAddress(stmt, j) ==
    LET dest == eval_lvalue(Ecx, stmt.lvalue).ptr
        dest_ty == lvalue_ty(Ecx, stmt.lvalue)
    IN PtrOffset(dest,
                 eval_aggregate(Ecx, dest, dest_ty, dest_ty.layout, stmt.operand.variant,
                                stmt.operand.operands).offsets[j + 1])

\* After the assignment stmt, the bytes of field j of the variant assigned are
\* those of operand j.
ReadsBack(stmt, j) ==
    LET op == stmt.operand.operands[j + 1]
        r == eval_assignment(Ecx, stmt.lvalue, stmt.operand)
        place == eval_lvalue(r.ecx, FieldPlace(stmt.operand.variant, j, op.ty))
    IN r.err = "Ok" =>
          /\ place.err = "Ok"
          /\ read_bytes(r.ecx.memory.alloc_map, place.ptr, op.ty.size)
                = [err |-> "Ok", val |-> write_target_int(Endian, op.ty.size, op.value)]

\* C28: in a program with a General enum, every operand j of every aggregate of
\* a variant v is written at the address that Field(j) of Downcast(v) evaluates
\* to, at or after the end of the discriminant, and reading that field after the
\* assignment yields the operand.
C28_GeneralRoundTrip ==
    (phase = "running" /\ main_def \in GeneralMains) =>
        \A stmt \in AggregateStatements(main_def) :
            \A j \in 0 .. Len(stmt.operand.operands) - 1 :
                /\ WriteAddress(stmt, j)
                      = eval_lvalue(Ecx, FieldPlace(stmt.operand.variant, j,
                                                    stmt.operand.operands[j + 1].ty)).ptr
                /\ WriteAddress(stmt, j).offset
                      >= eval_lvalue(Ecx, stmt.lvalue).ptr.offset
                         + IntegerSize(EnumTy(main_def).layout.discr)
                /\ ReadsBack(stmt, j)

\* ------------------------------------------- C29: RawNullablePointer layout

\* The programs whose enum has a RawNullablePointer layout.
RawNullableMains == {"option", "result"}

\* The address of the enum Var(0) of the program, and the pointer read there.
EnumAddress(E) == eval_lvalue(E, Var(0)).ptr
EnumPointer(E) == read_ptr(E.memory.alloc_map, EnumAddress(E))

\* The assignment of the non-null variant with the operand op stores the
\* pointer that op holds at the destination itself, and the pointer leads to
\* what the operand pointed to.
NonNullStored(stmt) ==
    LET src == eval_operand(Ecx, stmt.operand.operands[1])
        p == read_ptr(Ecx.memory.alloc_map, src.ptr)
        r == eval_assignment(Ecx, stmt.lvalue, stmt.operand)
    IN (src.err = "Ok" /\ p.err = "Ok") =>
          /\ r.err = "Ok" /\ ~r.panic
          /\ EnumPointer(r.ecx) = [err |-> "Ok", ret |-> p.ret]
          /\ read_bytes(r.ecx.memory.alloc_map, EnumPointer(r.ecx).ret, U16.size)
                = read_bytes(Ecx.memory.alloc_map, p.ret, U16.size)
          /\ eval_lvalue(r.ecx, Deref(FieldPlace(stmt.operand.variant, 0, BoxU16), U16))
                = LvalueOk(p.ret, LvalueExtraNone)

\* The assignment of the other variant, without operands, leaves pointer_size
\* defined zero bytes without a relocation at the destination.
NullStored(stmt) ==
    LET r == eval_assignment(Ecx, stmt.lvalue, stmt.operand) IN
    /\ r.err = "Ok" /\ ~r.panic
    /\ read_bytes(r.ecx.memory.alloc_map, EnumAddress(r.ecx), PointerSize)
          = [err |-> "Ok", val |-> [i \in 1 .. PointerSize |-> 0]]
    /\ relocations(r.ecx.memory.alloc_map, EnumAddress(r.ecx), PointerSize) = {}

NullableMains == {"option", "result", "wrapped", "wrapzst"}
SlotAddress(E) ==
    LET ty == EnumTy(main_def) IN
    IF ty.layout.tag = "RawNullablePointer" THEN EnumAddress(E)
    ELSE PtrOffset(EnumAddress(E),
                   nonnull_offset(ty, ty.layout.nndiscr, ty.layout.discrfield))

\* The aggregates of the null variant whose operands are all zero-sized.
NullVariantOfZsts(def_id) ==
    {stmt \in AggregateStatements(def_id) :
        /\ stmt.operand.variant # EnumTy(def_id).layout.nndiscr
        /\ \A i \in 1 .. Len(stmt.operand.operands) :
              operand_ty(Ecx, stmt.operand.operands[i]).size = 0}

\* C30: assigning the null variant of a nullable-pointer enum succeeds whatever
\* zero-sized operands the variant carries: the assignment returns Ok without
\* an abort and leaves the pointer-sized slot zero.
C30_NullVariantZst ==
    (phase = "running" /\ main_def \in NullableMains) =>
        \A stmt \in NullVariantOfZsts(main_def) :
            LET r == eval_assignment(Ecx, stmt.lvalue, stmt.operand) IN
            /\ r.err = "Ok" /\ ~r.panic
            /\ read_bytes(r.ecx.memory.alloc_map, SlotAddress(r.ecx), PointerSize)
                  = [err |-> "Ok", val |-> [i \in 1 .. PointerSize |-> 0]]

\* ------------------------------------------------ C33: the relocation query

\* The relocation at offset k takes the bytes k .. k + pointer_size - 1: it
\* has a byte in the size bytes at p.
SpanIntersects(k, p, size) == k < p.offset + size /\ p.offset < k + PointerSize

\* C33: for size > 0, relocations(ptr, size) is exactly the set of the
\* relocations of the allocation whose pointer_size bytes have a byte in
\* [ptr.offset, ptr.offset + size): none that has is missed, also one that
\* starts before the range, and none that has not is returned.
C33_RelocationRange ==
    \A size \in 1 .. MaxAccess :
        \A p \in {q \in Pointers : q.alloc_id \in DOMAIN alloc_map} :
            relocations(alloc_map, p, size)
                = {k \in DOMAIN alloc_map[p.alloc_id].relocations :
                      SpanIntersects(k, p, size)}

\* C33 witness: a relocation that starts one byte before a queried range is
\* found, and a range after its last byte does not find it.
C33_Witness ==
    \E p \in Pointers :
        /\ p.alloc_id \in DOMAIN alloc_map
        /\ p.offset = 1
        /\ relocations(alloc_map, p, 1) = {0}
        /\ relocations(alloc_map, PtrOffset(p, 1), 1) = {}

\* ------------------------------------------- C36: writes that return an error

\* The result r of a write is an error and the memory is as before the call.
FailsWithoutEffect(r) == r.err # "Ok" => r.am = alloc_map

\* C36: in every reachable state a write that returns an error (write_bytes,
\* write_repeat, write_uint, write_int, write_bool, write_ptr, or a copy) leaves
\* the bytes, the init bitmap and the relocations of every allocation as they
\* were before the call.
C36_FailedWriteNoEffect ==
    \A p \in Pointers :
        /\ \A src \in ByteStrings : FailsWithoutEffect(write_bytes(alloc_map, p, src))
        /\ \A count \in AccessSizes :
              FailsWithoutEffect(write_repeat(alloc_map, p, 0, count))
        /\ \A size \in IntSizes :
              /\ FailsWithoutEffect(write_uint(alloc_map, p, 1, size))
              /\ FailsWithoutEffect(write_int(alloc_map, p, -1, size))
        /\ FailsWithoutEffect(write_bool(alloc_map, p, TRUE))
        /\ \A q \in PointerValues : FailsWithoutEffect(write_ptr(alloc_map, p, q))
        /\ \A q \in Pointers : \A size \in AccessSizes :
              FailsWithoutEffect(copy(alloc_map, q, p, size))

\* ------------------------------------------ C37: the init bitmap in lockstep

\* C37: in every reachable state the init bitmap of each allocation has one
\* bit per byte of the allocation (undef_mask.len = bytes.len()) and its blocks
\* hold at least len bits.
C37_MaskInLockstep ==
    \A id \in DOMAIN alloc_map :
        /\ alloc_map[id].undef_mask.len = Len(alloc_map[id].bytes)
        /\ Len(alloc_map[id].undef_mask.blocks) * BLOCK_SIZE
              >= alloc_map[id].undef_mask.len

\* ------------------------------------ C38: accesses and the live region

\* The size bytes at p lie in the region [align, align + size) that allocate
\* handed out (the buffer of an allocation made by allocate holds align bytes
\* before the region and ends with it).
InLiveRegion(p, size) ==
    /\ p.offset >= alloc_map[p.alloc_id].align
    /\ p.offset + size <= Len(alloc_map[p.alloc_id].bytes)

\* C38: a read or a write of at least one byte of a live allocation that
\* succeeds touches only bytes of the region [align, align + size); an access
\* that reaches into the align bytes before the region, or past its end, fails
\* and changes nothing.
C38_LiveRegionOnly ==
    \A p \in {q \in Pointers : q.alloc_id \in Live(alloc_map)} :
        /\ \A src \in ByteStrings \ {<<>>} :
              ~InLiveRegion(p, Len(src)) =>
                  /\ write_bytes(alloc_map, p, src).err # "Ok"
                  /\ write_bytes(alloc_map, p, src).am = alloc_map
        /\ \A size \in 1 .. MaxAccess :
              ~InLiveRegion(p, size) => read_bytes(alloc_map, p, size).err # "Ok"

\* ------------------------------------- C39: the pointer reallocate returns

\* The bytes that the allocation of ptr held at ptr are found at the pointer
\* ret of the memory M, as far as both regions reach.
DataFoundAt(M, ptr, ret, new_size) ==
    LET old == alloc_map[ptr.alloc_id]
        new == M.alloc_map[ret.alloc_id]
        kept == Min(Len(old.bytes) - ptr.offset, new_size)
    IN \A i \in 1 .. kept :
          /\ ret.offset + i <= Len(new.bytes)
          /\ new.bytes[ret.offset + i] = old.bytes[ptr.offset + i]

\* C39: the pointer that a successful reallocate(ptr, new_size, align) of a
\* live allocation returns is a base pointer of the allocation for every
\* align: a reallocate or a deallocate of it passes the base-pointer check,
\* and the data the allocation held is found at it.
C39_ReallocateReturnsBase ==
    \A ptr \in {q \in Pointers : q.alloc_id \in Live(alloc_map)} :
        \A new_size \in Sizes, align \in Aligns :
            LET r == reallocate(Mem, ptr, new_size, align) IN
            r.err = "Ok" =>
                /\ ~bad_pointer_offset(r.mem, r.ret)
                /\ deallocate(r.mem, r.ret).err = "Ok"
                /\ DataFoundAt(r.mem, ptr, r.ret, new_size)

\* ---------------------------------------------------- string literals

\* The result of a write into the memory M, in the shape of a call of Memory
\* that returns the pointer ret.
Written(M, w, ret) ==
    [err |-> w.err, ret |-> IF w.err = "Ok" THEN ret ELSE NoPtr,
     mem |-> [M EXCEPT !.alloc_map = w.am], panic |-> FALSE, wrap |-> FALSE]

\* EvalContext::const_to_ptr, the arm Str(ref s)
const_to_ptr_Str(M, s) ==
    Let(allocate(M, Len(s), 1),
        LAMBDA a :
            IF a.err # "Ok" THEN a ELSE
            Let(allocate(a.mem, PointerSize * 2, PointerSize),
                LAMBDA b :
                    IF b.err # "Ok" THEN b ELSE
                    Let(write_bytes(b.mem.alloc_map, a.ret, s),
                        LAMBDA w1 :
                            IF w1.err # "Ok" THEN Written(b.mem, w1, b.ret) ELSE
                            Let(write_ptr(w1.am, get_fat_ptr(b.ret)[1], a.ret),
                                LAMBDA w2 :
                                    IF w2.err # "Ok" THEN Written(b.mem, w2, b.ret)
                                    ELSE Written(b.mem,
                                                 write_usize(w2.am, get_fat_ptr(b.ret)[2],
                                                             Len(s)),
                                                 b.ret)))))

\* EvalContext::const_to_ptr, the arm ByteStr(ref bs)
const_to_ptr_ByteStr(M, bs) ==
    Let(allocate(M, Len(bs), 1),
        LAMBDA a :
            IF a.err # "Ok" THEN a ELSE
            Let(allocate(a.mem, PointerSize, PointerSize),
                LAMBDA b :
                    IF b.err # "Ok" THEN b ELSE
                    Let(write_bytes(b.mem.alloc_map, a.ret, bs),
                        LAMBDA w1 :
                            IF w1.err # "Ok" THEN Written(b.mem, w1, b.ret)
                            ELSE Written(b.mem, write_ptr(w1.am, b.ret, a.ret), b.ret))))

\* A string literal is lowered while ids are left for its two allocations.
ConstToPtrStr ==
    /\ ~panicked
    /\ next_id + 2 <= MaxIdLit
    /\ \E s \in ByteStrings : Apply("const_to_ptr_Str", const_to_ptr_Str(Mem, s))

\* A byte-string literal is lowered while ids are left for its two allocations.
ConstToPtrByteStr ==
    /\ ~panicked
    /\ next_id + 2 <= MaxIdLit
    /\ \E bs \in ByteStrings : Apply("const_to_ptr_ByteStr", const_to_ptr_ByteStr(Mem, bs))

\* The literals of a program are lowered into a memory that has room for them.
InitLit ==
    MemoryNew(LitMemorySize) /\ EvalContextNew(0, "", 0) /\ RunInnerStart(<<>>)

NextLit ==
    \/ ConstToPtrStr
    \/ ConstToPtrByteStr

SpecLit == InitLit /\ [][NextLit]_vars

\* ------------------------------------- C31: literals as fat pointers

\* r is the result of lowering the literal lit: r.ret is the base pointer of a
\* fresh allocation of 2 * pointer_size bytes; its first word is a pointer,
\* with a relocation, to the bytes of the literal (in a fresh allocation,
\* unless the literal is empty), and its second word is the literal's length.
FatPointerTo(r, lit) ==
    LET am == r.mem.alloc_map
        words == get_fat_ptr(r.ret)
        data == read_ptr(am, words[1])
    IN /\ r.ret.alloc_id \notin DOMAIN alloc_map
       /\ ~bad_pointer_offset(r.mem, r.ret)
       /\ Len(am[r.ret.alloc_id].bytes) - r.ret.offset = 2 * PointerSize
       /\ data.err = "Ok"
       /\ r.ret.offset \in DOMAIN am[r.ret.alloc_id].relocations
       /\ lit # <<>> => data.ret.alloc_id \notin DOMAIN alloc_map
       /\ read_bytes(am, data.ret, Len(lit)) = [err |-> "Ok", val |-> lit]
       /\ read_uint(am, words[2], PointerSize) = [err |-> "Ok", val |-> Len(lit)]

\* C31: a byte-string literal and a UTF-8 string literal are each lowered to
\* fresh storage that holds a (data_ptr, len) fat pointer of 2 * pointer_size
\* bytes: the first word a pointer with a relocation to a fresh allocation
\* that contains the literal's bytes, the second word the literal's length.
C31_LiteralFatPointer ==
    \A lit \in ByteStrings :
        \A r \in {const_to_ptr_Str(Mem, lit), const_to_ptr_ByteStr(Mem, lit)} :
            r.err = "Ok" => FatPointerTo(r, lit)

\* ------------------------------------------------- primitive values

\* enum PrimVal: the variant and its payload
PrimVal(tag, n) == [tag |-> tag, n |-> n]

\* The primitive values a program writes: a bool, small integers and an
\* integer that stands for a pointer, a function pointer and a pointer into
\* memory.
BoolPrimVals == {PrimVal("Bool", TRUE)}
IntPrimVals ==
    {PrimVal("U8", 1), PrimVal("I8", -1), PrimVal("I16", -1), PrimVal("IntegerPtr", 1)}
PtrPrimVals == {PrimVal(tag, p) : tag \in {"FnPtr", "AbstractPtr"}, p \in PointerValues}

\* The result of write_primval: the result w of the write it delegates to.
PrimWritten(w) == [err |-> w.err, am |-> w.am, panic |-> FALSE]

\* unimplemented!(): the process panics, the memory as it was
PrimUnimplemented(am) == [err |-> "panic", am |-> am, panic |-> TRUE]

\* Memory::write_primval; the arms I8 .. I64 and U8 .. U64 differ in the size
\* they pass on only.
write_primval(am, ptr, val) ==
    CASE val.tag = "Bool" -> PrimWritten(write_bool(am, ptr, val.n))
      [] val.tag \in {"I8", "I16", "I32", "I64"} ->
            PrimWritten(write_int(am, ptr, val.n,
                                  CASE val.tag = "I8" -> 1 [] val.tag = "I16" -> 2
                                    [] val.tag = "I32" -> 4 [] OTHER -> 8))
      [] val.tag \in {"U8", "U16", "U32", "U64", "Char", "IntegerPtr"} ->
            PrimWritten(write_uint(am, ptr, val.n,
                                   CASE val.tag = "U8" -> 1 [] val.tag = "U16" -> 2
                                     [] val.tag \in {"U32", "Char"} -> 4
                                     [] val.tag = "IntegerPtr" -> PointerSize
                                     [] OTHER -> 8))
      [] val.tag = "F32" -> PrimWritten(write_float(am, ptr, val.n, 4))
      [] val.tag = "F64" -> PrimWritten(write_float(am, ptr, val.n, 8))
      [] val.tag \in {"FnPtr", "AbstractPtr"} -> PrimUnimplemented(am)

\* A call of write_primval; a panic in it aborts the process.
WritePrimval ==
    /\ ~panicked
    /\ \E ptr \in Pointers :
       \E r \in {write_primval(alloc_map, ptr, val) : val \in BoolPrimVals}
                  \cup {write_primval(alloc_map, ptr, val) : val \in IntPrimVals}
                  \cup {write_primval(alloc_map, ptr, val) : val \in PtrPrimVals} :
          /\ alloc_map' = r.am
          /\ panicked' = r.panic
          /\ last' = Call("write_primval", r.err, NoPtr)
          /\ UNCHANGED <<memory_usage, memory_size, functions, function_alloc_cache,
                         next_id, wrapped, issued, freed>>
          /\ UNCHANGED evars
          /\ UNCHANGED hvars

NextPrim ==
    \/ Allocate(MaxIdBytes)
    \/ WritePrimval

SpecPrim == Init /\ [][NextPrim]_vars

\* -------------------------- C32: unsupported shapes are Unimplemented errors

\* C32: an unsupported shape is rejected with an Unimplemented error value and
\* never aborts the process: writing a pointer-valued primitive (FnPtr,
\* AbstractPtr) returns Unimplemented, and no call of write_primval leaves the
\* process aborted by a panic.
C32_UnsupportedIsError ==
    /\ last.op = "write_primval" => ~panicked
    /\ \A ptr \in Pointers, p \in PointerValues :
          \A tag \in {"FnPtr", "AbstractPtr"} :
              LET r == write_primval(alloc_map, ptr, PrimVal(tag, p)) IN
              r.err = "Unimplemented" /\ ~r.panic


\* ------------------------- C34: the constants of an executed node are ready

\* What the extractor makes of the node the top frame of E stands at.
VisitNode(E) ==
    LET top == frame(E)
        bb == top.mir.basic_blocks[top.block + 1]
        X0 == Extractor(E, "Ok", 0, FALSE)
    IN IF top.stmt < Len(bb.statements)
       THEN visit_statement(X0, bb.statements[top.stmt + 1], top.def_id, top.mir)
       ELSE visit_terminator(X0, bb.terminator)

VisitTop == VisitNode(Ecx)

\* The constants the node the top frame stands at names.
TopRefs ==
    LET top == stack[Len(stack)]
        bb == top.mir.basic_blocks[top.block + 1]
    IN IF top.stmt < Len(bb.statements)
       THEN StatementRefs(bb.statements[top.stmt + 1], top.def_id)
       ELSE TerminatorRefs(bb.terminator)

\* The next step executes the node the top frame stands at: the extractor
\* finds nothing to compute.
Executes ==
    /\ phase = "running" /\ stack # <<>>
    /\ VisitTop.new_constants = [err |-> "Ok", n |-> 0]

\* The executing frame works for the initialization of k: the initializer
\* frame of k is on the stack, and it and every frame above it are initializer
\* frames.
InInitialization(k) ==
    \E i \in 2 .. Len(stack) :
        /\ stack[i].return_ptr = statics[k]
        /\ \A j \in i .. Len(stack) : stack[j].return_to_block.tag # "Goto"

\* The lookups of the constant k find its entry.
LookupHits(k) == k \in DOMAIN statics /\ StaticsReads(k) = {statics[k]}

\* C34 as stated: whenever step executes a statement or terminator, every
\* constant it names has an entry in the statics table and the initializer
\* frame of that entry has returned; the lookups never miss.
C34_ConstantsComputed ==
    Executes =>
        /\ ~step(Ecx).panic
        /\ \A k \in TopRefs : LookupHits(k) /\ ~Computing(k)

\* C34, amended: whenever step executes a statement or terminator, every
\* constant it names has an entry in the statics table and the lookups never
\* miss; the initializer frame of the entry has returned, unless the executing
\* frame works for the initialization of that very constant (a static whose
\* initializer names the static itself, directly or through the initializers
\* it started).
C34_ConstantsEntered ==
    Executes =>
        /\ ~step(Ecx).panic
        /\ \A k \in TopRefs : LookupHits(k) /\ (Computing(k) => InInitialization(k))

\* The initializer of pong is about to take the address of ping, whose
\* initializer started it and waits below it.
C34_Witness ==
    /\ Executes
    /\ Len(stack) = 3 /\ stack[2].def_id = "ping" /\ stack[3].def_id = "pong"
    /\ TopRefs = {ConstantId("ping", Global)}
    /\ Computing(ConstantId("ping", Global))


\* ------------------------------ C35: a constant is materialized once

\* The initializer frames a step pushes: the frames above the old stack that
\* were not pushed by a call.
PushedInitializers ==
    {i \in Len(stack) + 1 .. Len(stack') : stack'[i].return_to_block.tag # "Goto"}

\* While the run goes on, a frame that waits below an initializer frame has
\* been deferred at the node it stands at; the extractor finds nothing left to
\* compute for that node.
DeferredOnce ==
    phase = "running" =>
    \A i \in 1 .. Len(stack) - 1 :
        stack[i + 1].return_to_block.tag # "Goto" =>
            VisitNode([Ecx EXCEPT !.stack = SubSeq(stack, 1, i)]).new_constants
                = [err |-> "Ok", n |-> 0]

\* C35: no constant is materialized twice. Every initializer frame a step
\* pushes belongs to a key the statics table did not hold before the step,
\* the frames pushed by one step belong to different keys (also when the node
\* names a key twice or an initializer names its own key), and no key ever
\* leaves the table, so no second frame is pushed for it; a node is deferred
\* at most once: when the frames pushed for it have returned, the extractor
\* finds nothing to compute and the step executes the node.
C35_MaterializedOnce ==
    [][/\ phase = "running" =>
           /\ \A i \in PushedInitializers :
                 \E k \in (DOMAIN statics') \ (DOMAIN statics) :
                     statics'[k] = stack'[i].return_ptr
           /\ \A i, j \in PushedInitializers :
                 i # j => stack'[i].return_ptr # stack'[j].return_ptr
           /\ Cardinality(PushedInitializers)
                 <= Cardinality((DOMAIN statics') \ (DOMAIN statics))
           /\ DOMAIN statics \subseteq DOMAIN statics'
           /\ (PushedInitializers # {} /\ last'.err = "Ok(true)") =>
                 /\ SubSeq(stack', 1, Len(stack)) = stack
                 /\ VisitNode(Ecx).new_constants.n = Cardinality(PushedInitializers)
       /\ DeferredOnce /\ DeferredOnce']_vars

\* The statement of "self" names the static own twice and the initializer of
\* own names own: one frame was pushed for own, it has returned, and the
\* statement, deferred once, has been executed.
C35_Witness ==
    /\ main_def = "self" /\ phase = "running"
    /\ Len(stack) = 1 /\ stack[1].stmt = 1
    /\ DOMAIN statics = {ConstantId("own", Global)}
    /\ last = Call("step", "Ok(true)", NoPtr)

\* ------------------------------------------------------- the test harness

\* The captured output of a test is a sequence of pieces: the pieces run_inner
\* looks for, the ends of lines, and other text. The pieces NoMirFor and
\* CantFindCrateFor end with the backquote that opens a name, Backtick is the
\* backquote on its own.
NoMirFor == "no mir for "
CantFindCrateFor == "can't find crate for "
ErrorColon == "error: "
Backtick == "backquote"
Newline == "\n"
Aborting == "aborting"
c_abi == "can't call C ABI function: "
unimplemented_intrinsic_s == "unimplemented intrinsic: "
unsupported_s == "miri does not support "
abi_s == "can't handle function with "
limit_s == "reached the configured maximum "

\* str::find: the position of the first piece pat of text, 0 for None
Find(text, pat) ==
    IF \E i \in 1 .. Len(text) : text[i] = pat
    THEN SetMin({i \in 1 .. Len(text) : text[i] = pat})
    ELSE 0

\* text.splitn(2, pat).nth(1): what follows the first pat (text has one)
AfterFirst(text, pat) == SubSeq(text, Find(text, pat) + 1, Len(text))

\* text.split(pat).skip(1): the stretches of text that follow each pat
RECURSIVE SplitSkip1(_, _)
SplitSkip1(text, pat) ==
    IF Find(text, pat) = 0 THEN <<>>
    ELSE LET rest == AfterFirst(text, pat)
             next == Find(rest, pat)
         IN <<SubSeq(rest, 1, IF next = 0 THEN Len(rest) ELSE next - 1)>>
                \o SplitSkip1(rest, pat)

\* HashMapInc::inc
inc(map, s) ==
    IF s \in DOMAIN map THEN [map EXCEPT ![s] = @ + 1] ELSE Insert(map, s, 1)

\* The body of `for text in output_err.split("error: ").skip(1)`: the first line
\* of text is counted under the category its beginning names, under failed if
\* it names none and text does not mention aborting.
count_error(rep, text) ==
    LET end == IF Find(text, Newline) = 0 THEN Len(text) ELSE Find(text, Newline) - 1
        start == IF text = <<>> THEN "" ELSE text[1]
        detail == SubSeq(text, 2, end)
    IN
    IF start = c_abi THEN [rep EXCEPT !.c_abi_fns = inc(@, detail)]
    ELSE IF start = unimplemented_intrinsic_s
    THEN [rep EXCEPT !.unimplemented_intrinsic = inc(@, detail)]
    ELSE IF start = unsupported_s THEN [rep EXCEPT !.unsupported = inc(@, detail)]
    ELSE IF start = abi_s THEN [rep EXCEPT !.abi = inc(@, detail)]
    ELSE IF start = limit_s THEN [rep EXCEPT !.limits = inc(@, detail)]
    ELSE IF Find(text, Aborting) = 0
    THEN [rep EXCEPT !.failed = inc(@, SubSeq(text, 1, end))]
    ELSE rep

RECURSIVE count_errors(_, _)
count_errors(rep, texts) ==
    IF texts = <<>> THEN rep
    ELSE count_errors(count_error(rep, Head(texts)), Tail(texts))

\* run_inner, the arm Err(_) of `match result`: the run of the file panicked
\* and left output_err; text.find(backquote).unwrap() panics when the name is not
\* closed.
record_panic(rep, output_err) ==
    IF Find(output_err, NoMirFor) # 0
    THEN LET text == AfterFirst(output_err, NoMirFor) IN
         IF Find(text, Backtick) = 0 THEN [report |-> rep, panic |-> TRUE]
         ELSE [report |-> [rep EXCEPT !.mir_not_found =
                               inc(@, SubSeq(text, 1, Find(text, Backtick) - 1))],
               panic |-> FALSE]
    ELSE IF Find(output_err, CantFindCrateFor) # 0
    THEN LET text == AfterFirst(output_err, CantFindCrateFor) IN
         IF Find(text, Backtick) = 0 THEN [report |-> rep, panic |-> TRUE]
         ELSE [report |-> [rep EXCEPT !.crate_not_found =
                               inc(@, SubSeq(text, 1, Find(text, Backtick) - 1))],
               panic |-> FALSE]
    ELSE [report |-> count_errors(rep, SplitSkip1(output_err, ErrorColon)),
          panic |-> FALSE]

\* run_inner, `match result`: a run that returned counts as a success
record_result(rep, file) ==
    IF ~file.panicked
    THEN [report |-> [rep EXCEPT !.success = @ + 1], panic |-> FALSE]
    ELSE record_panic(rep, file.output)

\* run_inner, the end: Ok(success) when the report, its success field aside,
\* is the default report, Err(report) otherwise
run_inner_result(rep) ==
    IF [rep EXCEPT !.success = 0] = ReportDefault
    THEN RunResult("Ok", rep.success, ReportDefault)
    ELSE RunResult("Err", 0, rep)

\* A directory entry: a directory with its entries, a .rs file with what its
\* run does (it returns, or it panics and leaves output), or another file.
DirEntry(name, entries) ==
    [kind |-> "dir", name |-> name, entries |-> entries, panicked |-> FALSE,
     output |-> <<>>]
RsFile(panics, output) ==
    [kind |-> "rs", name |-> "t.rs", entries |-> <<>>, panicked |-> panics,
     output |-> output]
OtherFile ==
    [kind |-> "other", name |-> "t.stderr", entries |-> <<>>, panicked |-> FALSE,
     output |-> <<>>]

\* The outputs a panicking run leaves: none, a line that is no error, the
\* summary line of rustc alone, errors of the categories, a name left open.
Outputs ==
    {<<>>,
     <<"note", Newline>>,
     <<ErrorColon, Aborting, Newline>>,
     <<ErrorColon, "mismatched types", Newline, ErrorColon, Aborting, Newline>>,
     <<ErrorColon, unsupported_s, "x", Newline>>,
     <<ErrorColon, limit_s, "x">>,
     <<ErrorColon, NoMirFor, "f", Backtick, Newline>>,
     <<ErrorColon, CantFindCrateFor, "c", Backtick, Newline>>,
     <<ErrorColon, NoMirFor, "f">>}

RsFiles == {RsFile(FALSE, <<>>)} \cup {RsFile(TRUE, o) : o \in Outputs}

\* The directories run_inner is run over: at most MaxFiles entries, each a .rs
\* file, another file, or a directory (auxiliary or not) that holds a .rs file.
Dirs ==
    LET Entries == RsFiles \cup {OtherFile}
                      \cup {DirEntry(n, <<f>>) : n \in {"auxiliary", "sub"},
                                                 f \in {RsFile(FALSE, <<>>),
                                                        RsFile(TRUE, <<>>)}}
    IN UNION {[1 .. n -> Entries] : n \in 0 .. MaxFiles}

\* One iteration of `while let Some(file) = files.pop()`.
RunInnerEntry ==
    /\ run_result = NoResult /\ files # <<>>
    /\ LET file == files[Len(files)]
           rest == SubSeq(files, 1, Len(files) - 1)
           r == record_result(run_report, file)
       IN
       IF file.kind = "dir"
       THEN /\ files' = IF file.name = "auxiliary" THEN rest ELSE rest \o file.entries
            /\ UNCHANGED <<run_report, run_result, ran>>
       ELSE IF file.kind # "rs"
       THEN files' = rest /\ UNCHANGED <<run_report, run_result, ran>>
       ELSE /\ files' = rest
            /\ run_report' = r.report
            /\ run_result' = IF r.panic THEN RunResult("panic", 0, r.report) ELSE NoResult
            /\ ran' = IF file.panicked THEN [ran EXCEPT !.panicked = @ + 1]
                      ELSE [ran EXCEPT !.ok = @ + 1]
    /\ UNCHANGED <<alloc_map, memory_usage, memory_size, functions,
                   function_alloc_cache, next_id, panicked, wrapped, last, issued,
                   freed>>
    /\ UNCHANGED evars

\* The loop is over: run_inner returns.
RunInnerReturn ==
    /\ run_result = NoResult /\ files = <<>>
    /\ run_result' = run_inner_result(run_report)
    /\ UNCHANGED <<files, run_report, ran>>
    /\ UNCHANGED <<alloc_map, memory_usage, memory_size, functions,
                   function_alloc_cache, next_id, panicked, wrapped, last, issued,
                   freed>>
    /\ UNCHANGED evars

InitHarness ==
    \E dir \in Dirs :
        MemoryNew(MemorySize) /\ EvalContextNew(0, "", 0) /\ RunInnerStart(dir)

NextHarness ==
    \/ RunInnerEntry
    \/ RunInnerReturn

SpecHarness == InitHarness /\ [][NextHarness]_vars

\* ------------------------------------- C40: the result of a harness run

\* C40: a run over a directory returns Ok(n) iff every .rs file it processed
\* ran without a panic, n being the number of these files; if the run of a
\* file panicked, whatever output it left, the run returns Err(report), and
\* report.success counts the files whose run did not panic.
C40_OkIffNoPanic ==
    run_result # NoResult =>
        /\ run_result.tag \in {"Ok", "Err"}
        /\ run_result.tag = "Ok" <=> ran.panicked = 0
        /\ run_result.tag = "Ok" => run_result.success = ran.ok
        /\ run_result.tag = "Err" => run_result.report.success = ran.ok

=============================================================================
